---- MODULE Spec2Model ----
(***************************************************************************)
(* Flow execution engine of aestivus (src-python):                         *)
(*   api/execution.py   topological_sort, get_upstream_output,             *)
(*                      execute_flow                                       *)
(*   adapters/base.py   safe_execute                                       *)
(*   api/tasks.py       tasks store, ConnectionManager, execute_task,      *)
(*                      _run_task, cancel_task                             *)
(***************************************************************************)
EXTENDS Integers, Sequences, FiniteSets, TLC

\* ------------------------------------------------------------------------
\* Bounds and input universes
\* ------------------------------------------------------------------------

\* longest edge list submitted to topological_sort alone
MaxEdges == 3

\* node ids a request may use (FlowNode.id / FlowEdge.source / .target)
NodeIds == {"A", "B", "C"}

\* longest edge list of a flow submitted to execute_flow
MaxFlowEdges == 2

\* number of POST /tasks/execute requests
MaxTasks == 1

\* websocket connections that clients open to /tasks/ws/{task_id}
Sockets == {"w1", "w2"}

None == "None"

\* Optional[str] values of output_path and config['path'], all as tuples:
\* python None, the empty string, and opaque non-empty locators
PathNone == <<"None">>
PathEmpty == <<>>
OutPath(n) == <<"out", n>>
CfgPath(n) == <<"cfg", n>>

\* adapter names a flow node is drawn with: one of _ADAPTER_REGISTRY (crashu,
\* whose input schema requires 'path') and one that is not registered
NodeTypes == {"crashu", "nosuch"}

\* exceptions a capability is drawn to raise
RaisedKinds == {"RuntimeError"}

VARIABLES
    nodes,      \* request.nodes: sequence of FlowNode
    edges,      \* request.edges: sequence of FlowEdge
    setOrder,   \* iteration order of the python set node_ids (hash order)
    sortOut,    \* outcome of a direct topological_sort call
    fpc,        \* execute_flow: position of the handler
    execution_order, \* execute_flow: the order topological_sort returned
    idx,        \* execute_flow: 1-based index of the loop over execution_order
    node_results, \* execute_flow: node id -> NodeExecuteResponse
    all_success,  \* execute_flow: the flag of line 263
    inputs,     \* node id -> the config handed to input_class(**config)
    invoked,    \* node ids whose capability was invoked, in order
    events,     \* messages handed to send_status / send_log, in order
    response,   \* the FlowExecuteResponse returned (NoResponse while running)
    writes,     \* node id -> number of assignments to node_results[node id]
    happened,   \* node id -> what the node's step met (unknown adapter, ...)
    tasks,      \* api/tasks.py: task id -> TaskStatus
    runPc,      \* task id -> position of its _run_task coroutine
    cancelPc,   \* task id -> position of the cancel_task request that took effect
    iters,      \* coroutine -> the set iterator of the broadcast it is suspended in
    connections, \* manager.connections: task id -> set of websockets
    connGen,    \* task id -> how many set objects were created under that key
    wsState,    \* websocket -> new | open | closing | gone
    wsTask,     \* websocket -> the task id of its URL
    delivered,  \* websocket -> the message type last written to it (None: nothing yet)
    broadcasts, \* task id -> message types manager.broadcast was called with, in order
    active_connections, \* websocket.py: task id -> the websockets subscribed to it
    hubTask,    \* websocket -> the task id of its URL (None: /ws/system, or not connected)
    hubLast,    \* the last client message an endpoint handled, and how many there were
    global_connections, \* websocket.py: websockets subscribed to every execution
    hubState,   \* websocket.py: websocket -> "new", "open", "stuck", "closing", "gone"
    received,   \* websocket -> what was written to it, in order (0: the connected notice)
    joined,     \* websocket -> the events whose sending had begun when it connected
    published,  \* number of events published for the execution so far
    pubs,       \* event -> the send_to_task coroutine that publishes it
    orch,       \* the event execute_flow is awaiting the publish of (0: none)
    registry,   \* adapters/__init__.py: _ADAPTER_REGISTRY, name -> class path
    instances,  \* adapters/__init__.py: _adapter_instances, name -> instance
    instantiated, \* number of adapter instances created so far
    lastCall,   \* the last registry operation and what it returned
    importFails, \* the class paths whose import raises ImportError at present
    loadFailed, \* the names for which a get_adapter call raised ImportError
    taskStore,  \* tasks.py: the dict tasks by its startedAt: <<[id, startedAt]>> in insertion order
    httpLast,   \* the last GET request the tasks router answered, with its response
    flowFiles,  \* flows.py: config/flows: flow id -> what its .json file holds
    flowLast    \* the last request the flows router answered, with its response

reqVars == <<nodes, edges, setOrder>>
flowVars == <<fpc, execution_order, idx, node_results, all_success, inputs, invoked, events, response, writes, happened>>
taskVars == <<tasks, runPc, cancelPc, iters, connections, connGen, wsState, wsTask, delivered, broadcasts>>
hubVars == <<active_connections, hubTask, hubLast, global_connections, hubState, received, joined, published, pubs, orch>>
regVars == <<registry, instances, instantiated, lastCall, importFails, loadFailed>>
histVars == <<taskStore, httpLast>>
storeVars == <<flowFiles, flowLast>>
vars == <<nodes, edges, setOrder, sortOut, fpc, execution_order, idx, node_results, all_success, inputs, invoked, events, response, writes, happened, tasks, runPc, cancelPc, iters, connections, connGen, wsState, wsTask, delivered, broadcasts, active_connections, hubTask, hubLast, global_connections, hubState, received, joined, published, pubs, orch, registry, instances, instantiated, lastCall, importFails, loadFailed, taskStore, httpLast, flowFiles, flowLast>>

\* ------------------------------------------------------------------------
\* Generic helpers
\* ------------------------------------------------------------------------

Range(s) == {s[i] : i \in DOMAIN s}

SeqsUpTo(S, n) == UNION {[1..k -> S] : k \in 0..n}

\* all orders in which a python set with the elements S can be iterated
Perms(S) == {p \in [1..Cardinality(S) -> S] : Range(p) = S}

IsInjective(s) == \A i, j \in DOMAIN s : s[i] = s[j] => i = j

\* position of the first occurrence of x in s (0 when absent)
IndexOf(s, x) == IF x \in Range(s) THEN CHOOSE i \in DOMAIN s : s[i] = x /\ \A j \in 1..(i-1) : s[j] /= x ELSE 0

\* ------------------------------------------------------------------------
\* Request model (api/execution.py)
\* ------------------------------------------------------------------------

\* FlowNode: id, type and config (config is a map whose only modelled key is 'path')
FlowNode(id, type, config) == [id |-> id, type |-> type, config |-> config]

\* FlowEdge: source and target
FlowEdge(s, t) == [source |-> s, target |-> t]

AllEdges == {FlowEdge(s, t) : s \in NodeIds, t \in NodeIds}

\* the test fixtures' node: a registered type with an explicit path
TestNode(id) == FlowNode(id, "repacku", [k \in {"path"} |-> CfgPath(id)])

\* ------------------------------------------------------------------------
\* topological_sort (api/execution.py 69-109)
\* ------------------------------------------------------------------------

\* node_ids = {node.id for node in nodes}
node_ids_of(ns) == {ns[i].id : i \in DOMAIN ns}

\* the test of line 89 without its first half: an edge from an unknown source is kept
KnownEdgesTargetOnly(ns, es) == SelectSeq(es, LAMBDA e : e.target \in node_ids_of(ns))

\* the edges the loop at line 88 keeps, in list order
KnownEdges(ns, es) == SelectSeq(es, LAMBDA e : e.source \in node_ids_of(ns) /\ e.target \in node_ids_of(ns))

\* in_degree after the loop at lines 88-91
InDegree(ns, es) == [n \in node_ids_of(ns) |-> Cardinality({i \in DOMAIN KnownEdges(ns, es) : KnownEdges(ns, es)[i].target = n})]

RECURSIVE TargetsOf(_, _)
\* graph[n]: the targets appended for source n, in edge order
TargetsOf(es, n) == IF es = <<>> THEN <<>> ELSE IF Head(es).source = n THEN <<Head(es).target>> \o TargetsOf(Tail(es), n) ELSE TargetsOf(Tail(es), n)

Graph(ns, es) == [n \in node_ids_of(ns) |-> TargetsOf(KnownEdges(ns, es), n)]

\* queue = [node_id for node_id, degree in in_degree.items() if degree == 0];
\* the dict was filled by iterating the set, so its order is the set's order
InitialQueue(hashOrder, deg) == SelectSeq(hashOrder, LAMBDA n : deg[n] = 0)

RECURSIVE RelaxOffByOne(_, _, _)
\* Relax with the test of line 103 off by one: a neighbour is enqueued when one
\* of its dependencies is still pending
RelaxOffByOne(nbrs, deg, queue) ==
    IF nbrs = <<>> THEN [in_degree |-> deg, queue |-> queue]
    ELSE LET d == [deg EXCEPT ![Head(nbrs)] = @ - 1]
         IN RelaxOffByOne(Tail(nbrs), d, IF d[Head(nbrs)] = 1 THEN Append(queue, Head(nbrs)) ELSE queue)

RECURSIVE Relax(_, _, _)
\* the loop at lines 101-104 over graph[node_id]
Relax(nbrs, deg, queue) ==
    IF nbrs = <<>> THEN [in_degree |-> deg, queue |-> queue]
    ELSE LET d == [deg EXCEPT ![Head(nbrs)] = @ - 1]
         IN Relax(Tail(nbrs), d, IF d[Head(nbrs)] = 0 THEN Append(queue, Head(nbrs)) ELSE queue)

RECURSIVE Kahn(_, _, _, _)
\* the while loop at lines 97-104
Kahn(queue, result, deg, graph) ==
    IF queue = <<>> THEN result
    ELSE LET r == Relax(graph[Head(queue)], deg, Tail(queue))
         IN Kahn(r.queue, Append(result, Head(queue)), r.in_degree, graph)

\* SortReturn without the length test of line 106
SortReturnUnchecked(result, ids) == [ok |-> TRUE, order |-> result, error |-> None]

\* SortReturn with an error text that names the first node scheduled
SortReturnNamesScheduled(result, ids) ==
    IF Len(result) /= Cardinality(ids)
    THEN [ok |-> FALSE, order |-> <<>>, error |-> IF result = <<>> THEN "cycle" ELSE Head(result)]
    ELSE [ok |-> TRUE, order |-> result, error |-> None]

\* lines 106-109: raise ValueError on a length mismatch, else return result
SortReturn(result, ids) ==
    IF Len(result) /= Cardinality(ids)
    THEN [ok |-> FALSE, order |-> <<>>, error |-> "cycle"]
    ELSE [ok |-> TRUE, order |-> result, error |-> None]

\* an order that lists the node ids as the set gives them, whatever the edges
topological_sort_hash_order(ns, es, hashOrder) == [ok |-> TRUE, order |-> hashOrder, error |-> None]

topological_sort(ns, es, hashOrder) ==
    SortReturn(Kahn(InitialQueue(hashOrder, InDegree(ns, es)), <<>>, InDegree(ns, es), Graph(ns, es)), node_ids_of(ns))

\* ------------------------------------------------------------------------
\* Specification SpecSort: topological_sort called on a drawn graph
\* ------------------------------------------------------------------------

NotCalled == [ok |-> FALSE, order |-> <<>>, error |-> "not called"]

NoResponse == [returned |-> FALSE]

\* api/tasks.py right after import: no task, no connection
TasksIdle ==
    /\ tasks = <<>>
    /\ runPc = <<>>
    /\ cancelPc = <<>>
    /\ iters = <<>>
    /\ connections = <<>>
    /\ connGen = [t \in 1..MaxTasks |-> 0]
    /\ wsState = [w \in Sockets |-> "new"]
    /\ wsTask = [w \in Sockets |-> 0]
    /\ delivered = [w \in Sockets |-> None]
    /\ broadcasts = <<>>

\* The websockets that may subscribe to the execution's events
HubSockets == {"s1", "s2"}

\* websocket.py 20-24: ConnectionManager.__init__, before any event is published
HubIdle ==
    /\ active_connections = <<>>
    /\ hubTask = [s \in HubSockets |-> None]
    /\ hubLast = [n |-> 0, socket |-> None, message |-> None]
    /\ global_connections = {}
    /\ hubState = [s \in HubSockets |-> "new"]
    /\ received = [s \in HubSockets |-> <<>>]
    /\ joined = [s \in HubSockets |-> {}]
    /\ published = 0
    /\ pubs = <<>>
    /\ orch = 0

\* adapters/__init__.py 13-33: the names registered at import, each with whether
\* the kind of its class path ("crashu": crashu_adapter.py is there;
\* "enginev": registered, but there is no enginev_adapter.py to import)
_ADAPTER_REGISTRY == [n \in {"crashu", "enginev"} |-> IF n = "crashu" THEN "importable" ELSE "missing"]

NoCall == [op |-> "none", name |-> None, outcome |-> None, instance |-> 0]

\* adapters/__init__.py 13-36: the registry and the empty instance cache
RegistryIdle ==
    /\ registry = _ADAPTER_REGISTRY
    /\ instances = <<>>
    /\ instantiated = 0
    /\ lastCall = NoCall
    /\ importFails = {"missing"}
    /\ loadFailed = {}

NoRequest == [method |-> None, path |-> <<>>, limit |-> 0, response |-> [status |-> 0]]

\* tasks.py 30: tasks = {}, and no request answered yet
HistoryIdle ==
    /\ taskStore = <<>>
    /\ httpLast = NoRequest

NoFlowRequest == [op |-> None, flow_id |-> None, content |-> None, status |-> 0]

\* flows.py 14-15: an empty config/flows, and no request answered yet
FlowsIdle ==
    /\ flowFiles = <<>>
    /\ flowLast = NoFlowRequest

\* execute_flow before any request arrived
FlowIdle ==
    /\ fpc = "request"
    /\ execution_order = <<>>
    /\ idx = 0
    /\ node_results = <<>>
    /\ all_success = TRUE
    /\ inputs = <<>>
    /\ invoked = <<>>
    /\ events = <<>>
    /\ response = NoResponse
    /\ writes = <<>>
    /\ happened = <<>>

\* node lists with unique ids, as the hypothesis strategies build them
UniqueNodeLists == {[i \in DOMAIN p |-> TestNode(p[i])] : p \in {q \in SeqsUpTo(NodeIds, Cardinality(NodeIds)) : IsInjective(q)}}

InitSort ==
    /\ nodes \in UniqueNodeLists
    /\ edges \in SeqsUpTo(AllEdges, MaxEdges)
    /\ setOrder \in Perms(node_ids_of(nodes))
    /\ sortOut = NotCalled
    /\ FlowIdle
    /\ TasksIdle
    /\ HubIdle
    /\ RegistryIdle
    /\ HistoryIdle
    /\ FlowsIdle

SortCall ==
    /\ sortOut = NotCalled
    /\ sortOut' = topological_sort(nodes, edges, setOrder)
    /\ UNCHANGED <<reqVars, flowVars, taskVars, hubVars, regVars, histVars, storeVars>>

NextSort == SortCall

SpecSort == InitSort /\ [][NextSort]_vars

\* ------------------------------------------------------------------------
\* Python values used by execute_flow
\* ------------------------------------------------------------------------

\* truthiness of an Optional[str]
Truthy(p) == p /= PathNone /\ p /= PathEmpty

\* d[k] = v on a dict
DictSet(d, k, v) == [x \in DOMAIN d \cup {k} |-> IF x = k THEN v ELSE d[x]]

\* d.get(k, 0) + 1 stored back
DictIncr(d, k) == DictSet(d, k, IF k \in DOMAIN d THEN d[k] + 1 ELSE 1)

\* exception classes that derive from Exception (all but the BaseException-only ones)
DerivesException(exc) == exc \notin {"CancelledError", "KeyboardInterrupt", "SystemExit"}

\* AdapterOutput (adapters/base.py 16-22); data and stats are passed through unread
AdapterOutput(success, message, output_path) == [success |-> success, message |-> message, output_path |-> output_path]

\* NodeExecuteResponse (api/execution.py 29-36)
NodeExecuteResponse(success, message, output_path) == [success |-> success, message |-> message, output_path |-> output_path]

\* FlowExecuteResponse (api/execution.py 59-64)
FlowExecuteResponse(success, message, results, ord) == [returned |-> TRUE, success |-> success, message |-> message, node_results |-> results, execution_order |-> ord]

\* StatusMessage / LogMessage (api/websocket.py 99-141) as send_status / send_log build them
\* a status message that drops the node it is about
StatusMessageUnscoped(status, message, node_id) == [type |-> "status", node_id |-> None, status |-> status, message |-> message]

StatusMessage(status, message, node_id) == [type |-> "status", node_id |-> node_id, status |-> status, message |-> message]

LogMessage(message, node_id) == [type |-> "log", node_id |-> node_id, status |-> None, message |-> message]

\* ------------------------------------------------------------------------
\* safe_execute (adapters/base.py 155-200)
\* ------------------------------------------------------------------------

\* what adapter.execute may do for node n: succeed with an empty or a non-empty
\* output_path, report failure (leaving an output_path behind), or raise
CapabilityOutcomes(n) ==
    {[kind |-> "return", out |-> AdapterOutput(TRUE, <<"done", n>>, p)] : p \in {PathEmpty, OutPath(n)}}
        \cup {[kind |-> "return", out |-> AdapterOutput(FALSE, <<"failed", n>>, OutPath(n))]}
        \cup {[kind |-> "raise", exc |-> k] : k \in RaisedKinds}

\* the except clauses of lines 175-200, first match wins
SafeExecuteMessage(exc) ==
    CASE exc = "ImportError" -> <<"module import failed", exc>>
      [] exc = "FileNotFoundError" -> <<"path does not exist", exc>>
      [] exc = "PermissionError" -> <<"permission denied", exc>>
      [] exc = "AdapterError" -> <<"adapter error message", exc>>
      [] OTHER -> <<"execution exception", exc>>

\* the result of `await safe_execute(...)`: an AdapterOutput, or the exception
\* that no except clause of safe_execute matched
safe_execute(raw) ==
    IF raw.kind = "return" THEN raw
    ELSE IF DerivesException(raw.exc) THEN [kind |-> "return", out |-> AdapterOutput(FALSE, SafeExecuteMessage(raw.exc), PathNone)]
    ELSE raw

\* ------------------------------------------------------------------------
\* get_upstream_output (api/execution.py 112-133)
\* ------------------------------------------------------------------------

\* get_upstream_output that does not test upstream_result.success
get_upstream_output_any(node_id, es, results) ==
    LET hits == SelectSeq(es, LAMBDA e : e.target = node_id /\ e.source \in DOMAIN results /\ Truthy(results[e.source].output_path))
    IN IF hits = <<>> THEN PathNone ELSE results[Head(hits).source].output_path

\* the first edge in list order that passes the tests of lines 129 and 131
get_upstream_output(node_id, es, results) ==
    LET hits == SelectSeq(es, LAMBDA e : e.target = node_id /\ e.source \in DOMAIN results /\ results[e.source].success /\ Truthy(results[e.source].output_path))
    IN IF hits = <<>> THEN PathNone ELSE results[Head(hits).source].output_path

\* ------------------------------------------------------------------------
\* execute_flow (api/execution.py 221-335)
\* ------------------------------------------------------------------------

\* _ADAPTER_REGISTRY names (adapters/__init__.py 13-33), as far as NodeTypes reaches
Registered == {"repacku", "crashu"}

\* input_class(**config) for CrashuInput (adapters/crashu_adapter.py 15-17):
\* 'path' is a required field, so a config without it raises ValidationError
SchemaAccepts(config) == "path" \in DOMAIN config

\* a node_map in which the first node with an id wins
node_map_first(ns) == [n \in node_ids_of(ns) |-> ns[CHOOSE i \in DOMAIN ns : ns[i].id = n /\ \A j \in DOMAIN ns : ns[j].id = n => i <= j]]

\* node_map = {node.id: node for node in request.nodes}: the last node wins
node_map(ns) == [n \in node_ids_of(ns) |-> ns[CHOOSE i \in DOMAIN ns : ns[i].id = n /\ \A j \in DOMAIN ns : ns[j].id = n => j <= i]]

\* lines 275-278: config = dict(node.config), filled from upstream when 'path' is absent
EffectiveConfig(node, es, results) ==
    LET upstream_output == get_upstream_output(node.id, es, results)
    IN IF Truthy(upstream_output) /\ "path" \notin DOMAIN node.config
       THEN DictSet(node.config, "path", upstream_output)
       ELSE node.config

\* line 279: the log sent when the upstream path was wired in
WiringLog(node, es, results) ==
    IF Truthy(get_upstream_output(node.id, es, results)) /\ "path" \notin DOMAIN node.config
    THEN <<LogMessage(<<"use upstream output">> \o get_upstream_output(node.id, es, results), node.id)>>
    ELSE <<>>

\* a handler at line 316 narrowed to `except ImportError`
FlowHandlerCatchesImportErrorOnly(exc) == exc = "ImportError"

\* `except Exception` at line 316
FlowHandlerCatches(exc) == DerivesException(exc)

\* node_results[node_id] = ... dropped for an unsuccessful result
StoreResultIfSuccess(results, node_id, r) == IF r.success THEN DictSet(results, node_id, r) ELSE results

\* node_results[node_id] = NodeExecuteResponse(...) at lines 301 and 318
StoreResult(results, node_id, r) == DictSet(results, node_id, r)

\* the flag computed from the last result alone
AllSuccessLastOnly(flag, success) == success

\* lines 313-314 and 323: all_success is cleared by a failure and never set again
AllSuccessAfter(flag, success) == flag /\ success

\* a final status that does not look at all_success
FinalStatusAlwaysError(flag) == "error"

\* line 326
FinalStatus(flag) == IF flag THEN "completed" ELSE "error"

\* line 327
FinalMessage(flag) == IF flag THEN <<"flow finished">> ELSE <<"some nodes failed">>

CurrentNodeId == execution_order[idx]

CurrentNode == node_map(nodes)[CurrentNodeId]

\* the loop of line 264 moves on, or is exhausted
Advance ==
    /\ idx' = idx + 1
    /\ fpc' = IF idx < Len(execution_order) THEN "node" ELSE "finish"

\* lines 316-323, entered with an exception of class exc raised in the try block;
\* an exception the handler does not catch leaves execute_flow
ExceptPath(exc, evs) ==
    IF FlowHandlerCatches(exc)
    THEN /\ node_results' = StoreResult(node_results, CurrentNodeId, NodeExecuteResponse(FALSE, <<"execution failed", exc>>, PathNone))
         /\ writes' = DictIncr(writes, CurrentNodeId)
         /\ events' = evs \o <<StatusMessage("error", <<"execution failed", exc>>, CurrentNodeId)>>
         /\ all_success' = AllSuccessAfter(all_success, FALSE)
         /\ Advance
    ELSE /\ fpc' = "crashed"
         /\ events' = evs
         /\ UNCHANGED <<node_results, writes, all_success, idx>>

\* lines 238-242: an empty flow
FlowEmpty ==
    /\ fpc = "request"
    /\ nodes = <<>>
    /\ response' = FlowExecuteResponse(TRUE, <<"flow is empty">>, <<>>, <<>>)
    /\ fpc' = "done"
    /\ UNCHANGED <<reqVars, sortOut, execution_order, idx, node_results, all_success, inputs, invoked, events, writes, happened, taskVars, hubVars, regVars, histVars, storeVars>>

SortRaisedIgnored(s) == FALSE

\* line 247: `except ValueError` is entered when topological_sort raised
SortRaised(s) == ~s.ok

\* lines 244-252: topological_sort raised ValueError
FlowRejected ==
    /\ fpc = "request"
    /\ nodes /= <<>>
    /\ \E h \in Perms(node_ids_of(nodes)) :
         LET s == topological_sort(nodes, edges, h)
         IN /\ SortRaised(s)
            /\ events' = Append(events, StatusMessage("error", <<s.error>>, None))
            /\ response' = FlowExecuteResponse(FALSE, <<s.error>>, <<>>, <<>>)
    /\ fpc' = "done"
    /\ UNCHANGED <<reqVars, sortOut, execution_order, idx, node_results, all_success, inputs, invoked, writes, happened, taskVars, hubVars, regVars, histVars, storeVars>>

\* lines 244-263: the order is computed and announced
FlowStart ==
    /\ fpc = "request"
    /\ nodes /= <<>>
    /\ \E h \in Perms(node_ids_of(nodes)) :
         LET s == topological_sort(nodes, edges, h)
         IN /\ ~SortRaised(s)
            /\ execution_order' = s.order
            /\ events' = events \o <<StatusMessage("running", <<"flow start">>, None), LogMessage(<<"order">> \o s.order, None)>>
    /\ node_results' = <<>>
    /\ all_success' = TRUE
    /\ idx' = 1
    /\ fpc' = "node"
    /\ UNCHANGED <<reqVars, sortOut, inputs, invoked, response, writes, happened, taskVars, hubVars, regVars, histVars, storeVars>>

\* lines 264-268: the next node of the order is announced
NodeStart ==
    /\ fpc = "node"
    /\ events' = Append(events, StatusMessage("running", <<"run node">>, CurrentNodeId))
    /\ fpc' = "try"
    /\ UNCHANGED <<reqVars, sortOut, execution_order, idx, node_results, all_success, inputs, invoked, response, writes, happened, taskVars, hubVars, regVars, histVars, storeVars>>

\* line 272: get_adapter raises ValueError for a name that is not registered
NodeUnknownAdapter ==
    /\ fpc = "try"
    /\ CurrentNode.type \notin Registered
    /\ happened' = DictSet(happened, CurrentNodeId, [kind |-> "unknown"])
    /\ ExceptPath("ValueError", events)
    /\ UNCHANGED <<reqVars, sortOut, execution_order, inputs, invoked, response, taskVars, hubVars, regVars, histVars, storeVars>>

\* lines 272-283: the config is built and input_class(**config) rejects it
NodeInvalidConfig ==
    /\ fpc = "try"
    /\ CurrentNode.type \in Registered
    /\ ~SchemaAccepts(EffectiveConfig(CurrentNode, edges, node_results))
    /\ inputs' = DictSet(inputs, CurrentNodeId, EffectiveConfig(CurrentNode, edges, node_results))
    /\ happened' = DictSet(happened, CurrentNodeId, [kind |-> "invalid"])
    /\ ExceptPath("ValidationError", events \o WiringLog(CurrentNode, edges, node_results))
    /\ UNCHANGED <<reqVars, sortOut, execution_order, invoked, response, taskVars, hubVars, regVars, histVars, storeVars>>

\* lines 272-299: the config is built and accepted, the capability is invoked
NodeInvoke ==
    /\ fpc = "try"
    /\ CurrentNode.type \in Registered
    /\ SchemaAccepts(EffectiveConfig(CurrentNode, edges, node_results))
    /\ inputs' = DictSet(inputs, CurrentNodeId, EffectiveConfig(CurrentNode, edges, node_results))
    /\ events' = events \o WiringLog(CurrentNode, edges, node_results)
    /\ invoked' = Append(invoked, CurrentNodeId)
    /\ fpc' = "executing"
    /\ UNCHANGED <<reqVars, sortOut, execution_order, idx, node_results, all_success, response, writes, happened, taskVars, hubVars, regVars, histVars, storeVars>>

\* a node status that does not look at result.success
NodeStatusAlwaysCompleted(success) == "completed"

\* line 310: status = "completed" if result.success else "error"
NodeStatus(success) == IF success THEN "completed" ELSE "error"

\* lines 294-314: safe_execute comes back; the result is stored and announced
NodeReturn ==
    /\ fpc = "executing"
    /\ \E raw \in CapabilityOutcomes(CurrentNodeId) :
         LET result == safe_execute(raw)
         IN /\ happened' = DictSet(happened, CurrentNodeId, raw)
            /\ IF result.kind = "return"
               THEN /\ node_results' = StoreResult(node_results, CurrentNodeId, NodeExecuteResponse(result.out.success, result.out.message, result.out.output_path))
                    /\ writes' = DictIncr(writes, CurrentNodeId)
                    /\ events' = Append(events, StatusMessage(NodeStatus(result.out.success), result.out.message, CurrentNodeId))
                    /\ all_success' = AllSuccessAfter(all_success, result.out.success)
                    /\ Advance
               ELSE ExceptPath(result.exc, events)
    /\ UNCHANGED <<reqVars, sortOut, execution_order, inputs, invoked, response, taskVars, hubVars, regVars, histVars, storeVars>>

\* lines 325-335: the final status is sent and the response returned
FlowFinish ==
    /\ fpc = "finish"
    /\ events' = Append(events, StatusMessage(FinalStatus(all_success), FinalMessage(all_success), None))
    /\ response' = FlowExecuteResponse(all_success, FinalMessage(all_success), node_results, execution_order)
    /\ fpc' = "done"
    /\ UNCHANGED <<reqVars, sortOut, execution_order, idx, node_results, all_success, inputs, invoked, writes, happened, taskVars, hubVars, regVars, histVars, storeVars>>

\* ------------------------------------------------------------------------
\* Specification Spec: one execute_flow request
\* ------------------------------------------------------------------------

\* a submitted node: a registered type with or without config['path'], or an
\* unregistered type
FlowNodes(id) == {FlowNode(id, "crashu", c) : c \in {<<>>, [k \in {"path"} |-> CfgPath(id)]}} \cup {FlowNode(id, "nosuch", <<>>)}

\* ids in ascending order; execute_flow reads the list order only through node_map
IdLists == {<<>>, <<"A">>, <<"B">>, <<"C">>, <<"A", "B">>, <<"A", "C">>, <<"B", "C">>, <<"A", "B", "C">>, <<"A", "A">>}

FlowNodeLists == UNION {{ns \in [DOMAIN p -> UNION {FlowNodes(i) : i \in NodeIds}] : \A i \in DOMAIN p : ns[i].id = p[i]} : p \in IdLists}

\* the edges a flow is drawn with: every edge from an id to a later one and
\* every edge into "A" (its self-loop included), so that chains, fan-in,
\* cycles of every length and edges from or to an id that was not submitted occur
FlowEdgePool == {e \in AllEdges : <<e.source, e.target>> \in {<<"A", "B">>, <<"A", "C">>, <<"B", "C">>, <<"A", "A">>, <<"B", "A">>, <<"C", "A">>}}

Init ==
    /\ nodes \in FlowNodeLists
    /\ edges \in SeqsUpTo(FlowEdgePool, MaxFlowEdges)
    /\ setOrder = <<>>
    /\ sortOut = NotCalled
    /\ FlowIdle
    /\ TasksIdle
    /\ HubIdle
    /\ RegistryIdle
    /\ HistoryIdle
    /\ FlowsIdle

Next ==
    \/ FlowEmpty
    \/ FlowRejected
    \/ FlowStart
    \/ NodeStart
    \/ NodeUnknownAdapter
    \/ NodeInvalidConfig
    \/ NodeInvoke
    \/ NodeReturn
    \/ FlowFinish

Spec == Init /\ [][Next]_vars

\* ------------------------------------------------------------------------
\* api/tasks.py: task store, ConnectionManager, _run_task, cancel_task
\* ------------------------------------------------------------------------

TaskIds == 1..MaxTasks

\* a record created as already running
TaskStatusRunning(status, completedAt, error) == [status |-> "running", completedAt |-> completedAt, error |-> error]

\* TaskStatus (lines 19-26); completedAt is modelled by whether it is set
TaskStatus(status, completedAt, error) == [status |-> status, completedAt |-> completedAt, error |-> error]

\* del d[k]
DictDel(d, k) == [x \in DOMAIN d \ {k} |-> d[x]]

RunCo(t) == <<"run", t>>

CancelCo(t) == <<"cancel", t>>

NoIter == [used |-> 0, visited |-> {}, dead |-> {}, gen |-> 0, audience |-> {}, raised |-> FALSE]

\* `for ws in self.connections[task_id]` (line 53): a set iterator remembers the
\* set object and the size it had when the loop began
SetIter(t) == [used |-> Cardinality(connections[t]), visited |-> {}, dead |-> {}, gen |-> connGen[t], audience |-> connections[t], raised |-> FALSE]

\* ws.send_json succeeds on an open socket and raises once the client is gone
SendOk(w) == wsState[w] = "open"

\* lines 54-57 for one websocket: send, or remember it as dead
SendStep(it, w, msg) == [iter |-> [it EXCEPT !.visited = @ \cup {w}, !.dead = IF SendOk(w) THEN @ ELSE @ \cup {w}], delivered |-> IF SendOk(w) THEN [delivered EXCEPT ![w] = msg] ELSE delivered]

\* manager.broadcast up to its first await (lines 50-55): nothing to do without
\* the key or with an empty set, else the first send_json
BroadcastBegin(t, msg) ==
    IF t \notin DOMAIN connections \/ connections[t] = {}
    THEN {[suspended |-> FALSE, iter |-> NoIter, delivered |-> delivered]}
    ELSE {[suspended |-> TRUE, iter |-> SendStep(SetIter(t), w, msg).iter, delivered |-> SendStep(SetIter(t), w, msg).delivered] : w \in connections[t]}

\* the iterator's next() raises RuntimeError("Set changed size during iteration"):
\* the set it walks was emptied and dropped, or its size differs
IterBroken(it, t) == IF t \notin DOMAIN connections THEN TRUE ELSE (connGen[t] /= it.gen \/ Cardinality(connections[t]) /= it.used)

\* websockets the loop has not reached
Unvisited(it, t) == connections[t] \ it.visited

BroadcastMsg(pc) ==
    CASE pc = "bc_started" -> "task_started"
      [] pc = "bc_output" -> "task_output"
      [] pc = "bc_completed" -> "task_completed"
      [] pc = "bc_error" -> "task_error"
      [] pc = "bc_cancelled" -> "task_cancelled"

\* where _run_task goes on after a broadcast returned
AfterBroadcast(pc) ==
    CASE pc = "bc_started" -> "sleep1"
      [] pc = "bc_output" -> "sleep2"
      [] pc = "bc_completed" -> "finished"
      [] pc = "bc_error" -> "finished"

\* the broadcasts of lines 103 and 115 are inside the try block of line 98
InsideTry(pc) == pc \in {"bc_output", "bc_completed"}

\* get_task (lines 133-138): the stored record, or 404
get_task(store, t) == IF t \in DOMAIN store THEN [found |-> TRUE, task |-> store[t]] ELSE [found |-> FALSE, task |-> <<>>]

\* execute_task (lines 65-82): a pending record is stored and _run_task scheduled
ExecuteTask ==
    /\ Cardinality(DOMAIN tasks) < MaxTasks
    /\ LET t == Cardinality(DOMAIN tasks) + 1
       IN /\ tasks' = DictSet(tasks, t, TaskStatus("pending", FALSE, None))
          /\ runPc' = DictSet(runPc, t, "created")
          /\ cancelPc' = DictSet(cancelPc, t, "idle")
          /\ iters' = DictSet(DictSet(iters, RunCo(t), NoIter), CancelCo(t), NoIter)
          /\ broadcasts' = DictSet(broadcasts, t, <<>>)
    /\ UNCHANGED <<connections, connGen, wsState, wsTask, delivered, reqVars, sortOut, flowVars, hubVars, regVars, histVars, storeVars>>

\* _run_task lines 87-96: status running, task_started broadcast begun
RunStart(t) ==
    /\ t \in DOMAIN tasks
    /\ runPc[t] = "created"
    /\ tasks' = [tasks EXCEPT ![t].status = "running"]
    /\ broadcasts' = [broadcasts EXCEPT ![t] = Append(@, "task_started")]
    /\ \E r \in BroadcastBegin(t, "task_started") :
         /\ delivered' = r.delivered
         /\ iters' = [iters EXCEPT ![RunCo(t)] = r.iter]
         /\ runPc' = [runPc EXCEPT ![t] = IF r.suspended THEN "bc_started" ELSE "sleep1"]
    /\ UNCHANGED <<cancelPc, connections, connGen, wsState, wsTask, reqVars, sortOut, flowVars, hubVars, regVars, histVars, storeVars>>

\* lines 101-108: the first sleep is over, task_output broadcast begun
RunWake1(t) ==
    /\ t \in DOMAIN tasks
    /\ runPc[t] = "sleep1"
    /\ broadcasts' = [broadcasts EXCEPT ![t] = Append(@, "task_output")]
    /\ \E r \in BroadcastBegin(t, "task_output") :
         /\ delivered' = r.delivered
         /\ iters' = [iters EXCEPT ![RunCo(t)] = r.iter]
         /\ runPc' = [runPc EXCEPT ![t] = IF r.suspended THEN "bc_output" ELSE "sleep2"]
    /\ UNCHANGED <<tasks, cancelPc, connections, connGen, wsState, wsTask, reqVars, sortOut, flowVars, hubVars, regVars, histVars, storeVars>>

\* lines 110-119: the second sleep is over, status completed, task_completed broadcast begun
RunWake2(t) ==
    /\ t \in DOMAIN tasks
    /\ runPc[t] = "sleep2"
    /\ tasks' = [tasks EXCEPT ![t].status = "completed", ![t].completedAt = TRUE]
    /\ broadcasts' = [broadcasts EXCEPT ![t] = Append(@, "task_completed")]
    /\ \E r \in BroadcastBegin(t, "task_completed") :
         /\ delivered' = r.delivered
         /\ iters' = [iters EXCEPT ![RunCo(t)] = r.iter]
         /\ runPc' = [runPc EXCEPT ![t] = IF r.suspended THEN "bc_completed" ELSE "finished"]
    /\ UNCHANGED <<cancelPc, connections, connGen, wsState, wsTask, reqVars, sortOut, flowVars, hubVars, regVars, histVars, storeVars>>

\* broadcast lines 53-57 inside _run_task: the next websocket is sent to
RunBroadcastSend(t) ==
    /\ t \in DOMAIN tasks
    /\ runPc[t] \in {"bc_started", "bc_output", "bc_completed", "bc_error"}
    /\ ~IterBroken(iters[RunCo(t)], t)
    /\ \E w \in Unvisited(iters[RunCo(t)], t) :
         /\ iters' = [iters EXCEPT ![RunCo(t)] = SendStep(@, w, BroadcastMsg(runPc[t])).iter]
         /\ delivered' = SendStep(iters[RunCo(t)], w, BroadcastMsg(runPc[t])).delivered
    /\ UNCHANGED <<tasks, runPc, cancelPc, connections, connGen, wsState, wsTask, broadcasts, reqVars, sortOut, flowVars, hubVars, regVars, histVars, storeVars>>

\* broadcast lines 58-59 inside _run_task: the loop is exhausted, the dead
\* websockets are discarded, _run_task goes on to its next await or its end
RunBroadcastReturn(t) ==
    /\ t \in DOMAIN tasks
    /\ runPc[t] \in {"bc_started", "bc_output", "bc_completed", "bc_error"}
    /\ ~IterBroken(iters[RunCo(t)], t)
    /\ Unvisited(iters[RunCo(t)], t) = {}
    /\ connections' = [connections EXCEPT ![t] = @ \ iters[RunCo(t)].dead]
    /\ iters' = [iters EXCEPT ![RunCo(t)] = NoIter]
    /\ runPc' = [runPc EXCEPT ![t] = AfterBroadcast(@)]
    /\ UNCHANGED <<tasks, cancelPc, connGen, wsState, wsTask, delivered, broadcasts, reqVars, sortOut, flowVars, hubVars, regVars, histVars, storeVars>>

\* the for statement of line 53 raises RuntimeError inside the try block:
\* lines 121-130, status failed and task_error broadcast begun
RunBroadcastRaiseCaught(t) ==
    /\ t \in DOMAIN tasks
    /\ InsideTry(runPc[t])
    /\ IterBroken(iters[RunCo(t)], t)
    /\ tasks' = [tasks EXCEPT ![t].status = "failed", ![t].error = "RuntimeError", ![t].completedAt = TRUE]
    /\ broadcasts' = [broadcasts EXCEPT ![t] = Append(@, "task_error")]
    /\ \E r \in BroadcastBegin(t, "task_error") :
         /\ delivered' = r.delivered
         /\ iters' = [iters EXCEPT ![RunCo(t)] = r.iter]
         /\ runPc' = [runPc EXCEPT ![t] = IF r.suspended THEN "bc_error" ELSE "finished"]
    /\ UNCHANGED <<cancelPc, connections, connGen, wsState, wsTask, reqVars, sortOut, flowVars, hubVars, regVars, histVars, storeVars>>

\* the for statement raises RuntimeError outside the try block (the broadcasts
\* of lines 92 and 126): the exception leaves _run_task
RunBroadcastRaiseUncaught(t) ==
    /\ t \in DOMAIN tasks
    /\ runPc[t] \in {"bc_started", "bc_error"}
    /\ IterBroken(iters[RunCo(t)], t)
    /\ iters' = [iters EXCEPT ![RunCo(t)].raised = TRUE]
    /\ runPc' = [runPc EXCEPT ![t] = "died"]
    /\ UNCHANGED <<tasks, cancelPc, connections, connGen, wsState, wsTask, delivered, broadcasts, reqVars, sortOut, flowVars, hubVars, regVars, histVars, storeVars>>

\* cancel_task lines 141-158 on a running task: status cancelled and
\* task_cancelled broadcast begun
CancelTask(t) ==
    /\ t \in DOMAIN tasks
    /\ tasks[t].status = "running"
    /\ tasks' = [tasks EXCEPT ![t].status = "cancelled", ![t].completedAt = TRUE]
    /\ broadcasts' = [broadcasts EXCEPT ![t] = Append(@, "task_cancelled")]
    /\ \E r \in BroadcastBegin(t, "task_cancelled") :
         /\ delivered' = r.delivered
         /\ iters' = [iters EXCEPT ![CancelCo(t)] = r.iter]
         /\ cancelPc' = [cancelPc EXCEPT ![t] = IF r.suspended THEN "bc_cancelled" ELSE "returned"]
    /\ UNCHANGED <<runPc, connections, connGen, wsState, wsTask, reqVars, sortOut, flowVars, hubVars, regVars, histVars, storeVars>>

\* cancel_task on a task that is not running (line 148 false), or on an id
\* that is not stored (404): nothing changes
CancelNoEffect(t) ==
    /\ t \in TaskIds
    /\ IF t \in DOMAIN tasks THEN tasks[t].status /= "running" ELSE TRUE
    /\ UNCHANGED vars

\* broadcast lines 53-57 inside cancel_task
CancelBroadcastSend(t) ==
    /\ t \in DOMAIN tasks
    /\ cancelPc[t] = "bc_cancelled"
    /\ ~IterBroken(iters[CancelCo(t)], t)
    /\ \E w \in Unvisited(iters[CancelCo(t)], t) :
         /\ iters' = [iters EXCEPT ![CancelCo(t)] = SendStep(@, w, "task_cancelled").iter]
         /\ delivered' = SendStep(iters[CancelCo(t)], w, "task_cancelled").delivered
    /\ UNCHANGED <<tasks, runPc, cancelPc, connections, connGen, wsState, wsTask, broadcasts, reqVars, sortOut, flowVars, hubVars, regVars, histVars, storeVars>>

\* broadcast lines 58-59 inside cancel_task, then its return at line 158
CancelBroadcastReturn(t) ==
    /\ t \in DOMAIN tasks
    /\ cancelPc[t] = "bc_cancelled"
    /\ ~IterBroken(iters[CancelCo(t)], t)
    /\ Unvisited(iters[CancelCo(t)], t) = {}
    /\ connections' = [connections EXCEPT ![t] = @ \ iters[CancelCo(t)].dead]
    /\ iters' = [iters EXCEPT ![CancelCo(t)] = NoIter]
    /\ cancelPc' = [cancelPc EXCEPT ![t] = "returned"]
    /\ UNCHANGED <<tasks, runPc, connGen, wsState, wsTask, delivered, broadcasts, reqVars, sortOut, flowVars, hubVars, regVars, histVars, storeVars>>

\* the for statement raises RuntimeError inside cancel_task: the request fails
CancelBroadcastRaise(t) ==
    /\ t \in DOMAIN tasks
    /\ cancelPc[t] = "bc_cancelled"
    /\ IterBroken(iters[CancelCo(t)], t)
    /\ iters' = [iters EXCEPT ![CancelCo(t)].raised = TRUE]
    /\ cancelPc' = [cancelPc EXCEPT ![t] = "raised"]
    /\ UNCHANGED <<tasks, runPc, connections, connGen, wsState, wsTask, delivered, broadcasts, reqVars, sortOut, flowVars, hubVars, regVars, histVars, storeVars>>

\* websocket_task line 175 and manager.connect (lines 38-42)
Connect(w, t) ==
    /\ wsState[w] = "new"
    /\ wsState' = [wsState EXCEPT ![w] = "open"]
    /\ wsTask' = [wsTask EXCEPT ![w] = t]
    /\ connections' = DictSet(connections, t, IF t \in DOMAIN connections THEN connections[t] \cup {w} ELSE {w})
    /\ connGen' = IF t \in DOMAIN connections THEN connGen ELSE [connGen EXCEPT ![t] = @ + 1]
    /\ UNCHANGED <<tasks, runPc, cancelPc, iters, delivered, broadcasts, reqVars, sortOut, flowVars, hubVars, regVars, histVars, storeVars>>

\* the client goes away; the server has not yet read the disconnect
ClientClose(w) ==
    /\ wsState[w] = "open"
    /\ wsState' = [wsState EXCEPT ![w] = "closing"]
    /\ UNCHANGED <<tasks, runPc, cancelPc, iters, connections, connGen, wsTask, delivered, broadcasts, reqVars, sortOut, flowVars, hubVars, regVars, histVars, storeVars>>

\* websocket_task lines 179-180 and manager.disconnect (lines 44-48)
Disconnect(w) ==
    /\ wsState[w] = "closing"
    /\ wsState' = [wsState EXCEPT ![w] = "gone"]
    /\ connections' = IF wsTask[w] \notin DOMAIN connections THEN connections
                      ELSE IF connections[wsTask[w]] \ {w} = {} THEN DictDel(connections, wsTask[w])
                      ELSE [connections EXCEPT ![wsTask[w]] = @ \ {w}]
    /\ UNCHANGED <<tasks, runPc, cancelPc, iters, connGen, wsTask, delivered, broadcasts, reqVars, sortOut, flowVars, hubVars, regVars, histVars, storeVars>>

\* ------------------------------------------------------------------------
\* Specification SpecTasks: the tasks API under concurrent requests
\* ------------------------------------------------------------------------

InitTasks ==
    /\ nodes = <<>>
    /\ edges = <<>>
    /\ setOrder = <<>>
    /\ sortOut = NotCalled
    /\ FlowIdle
    /\ TasksIdle
    /\ HubIdle
    /\ RegistryIdle
    /\ HistoryIdle
    /\ FlowsIdle

NextTasks ==
    \/ ExecuteTask
    \/ \E t \in TaskIds : RunStart(t)
    \/ \E t \in TaskIds : RunWake1(t)
    \/ \E t \in TaskIds : RunWake2(t)
    \/ \E t \in TaskIds : RunBroadcastSend(t)
    \/ \E t \in TaskIds : RunBroadcastReturn(t)
    \/ \E t \in TaskIds : RunBroadcastRaiseCaught(t)
    \/ \E t \in TaskIds : RunBroadcastRaiseUncaught(t)
    \/ \E t \in TaskIds : CancelTask(t)
    \/ \E t \in TaskIds : CancelNoEffect(t)
    \/ \E t \in TaskIds : CancelBroadcastSend(t)
    \/ \E t \in TaskIds : CancelBroadcastReturn(t)
    \/ \E t \in TaskIds : CancelBroadcastRaise(t)
    \/ \E w \in Sockets, t \in TaskIds : Connect(w, t)
    \/ \E w \in Sockets : ClientClose(w)
    \/ \E w \in Sockets : Disconnect(w)

SpecTasks == InitTasks /\ [][NextTasks]_vars

\* ------------------------------------------------------------------------
\* Graph vocabulary of the claims (independent of Kahn's algorithm)
\* ------------------------------------------------------------------------

\* the edge relation between submitted nodes
EdgeRel(ns, es) == {<<es[i].source, es[i].target>> : i \in {j \in DOMAIN es : es[j].source \in node_ids_of(ns) /\ es[j].target \in node_ids_of(ns)}}

RECURSIVE PathsUpTo(_, _)
\* pairs joined by a path of 1..k edges of R
PathsUpTo(R, k) == IF k <= 1 THEN R ELSE LET P == PathsUpTo(R, k - 1) IN P \cup {<<q[1][1], q[2][2]>> : q \in {x \in P \X R : x[1][2] = x[2][1]}}

\* ids lying on a cycle of the submitted graph
OnCycle(ns, es) == {n \in node_ids_of(ns) : <<n, n>> \in PathsUpTo(EdgeRel(ns, es), Cardinality(node_ids_of(ns)))}

HasCycle(ns, es) == OnCycle(ns, es) /= {}

\* ------------------------------------------------------------------------
\* Claims on the tasks API (checked under SpecTasks)
\* ------------------------------------------------------------------------

Terminal == {"completed", "failed", "cancelled"}

\* the positions of the task_cancelled broadcast in the task's broadcast log
CancelledAt(t) == {i \in 1..Len(broadcasts[t]) : broadcasts[t][i] = "task_cancelled"}

\* _run_task has nothing left to do
RunOver(t) == runPc[t] \in {"finished", "died"}

\* C1: once a task's status is completed, failed or cancelled, no step of
\* _run_task or cancel_task changes it again.
C1_TerminalStatusFinal ==
    [][\A t \in DOMAIN tasks : tasks[t].status \in Terminal => tasks'[t].status = tasks[t].status]_vars

\* C2: after cancel_task has cancelled a running task, no task_output or
\* task_completed event is published for it any more, and when _run_task is
\* over the task's status is cancelled.
C2_CancelStopsRun ==
    \A t \in DOMAIN tasks : \A i \in CancelledAt(t) :
        /\ \A j \in (i + 1)..Len(broadcasts[t]) : broadcasts[t][j] \notin {"task_output", "task_completed"}
        /\ RunOver(t) => tasks[t].status = "cancelled"

\* ------------------------------------------------------------------------
\* Claims on topological_sort (checked under SpecSort)
\* ------------------------------------------------------------------------

SortCalled == sortOut /= NotCalled

\* C3: for a node list with unique ids and an acyclic edge list, the result
\* holds each node id exactly once and every edge between submitted nodes
\* goes from an earlier to a later position.
C3_SortIsTopologicalOrder ==
    (SortCalled /\ IsInjective([i \in DOMAIN nodes |-> nodes[i].id]) /\ ~HasCycle(nodes, edges)) =>
        /\ sortOut.ok
        /\ Len(sortOut.order) = Len(nodes)
        /\ IsInjective(sortOut.order)
        /\ Range(sortOut.order) = node_ids_of(nodes)
        /\ \A i \in DOMAIN edges :
             (edges[i].source \in node_ids_of(nodes) /\ edges[i].target \in node_ids_of(nodes)) =>
                 IndexOf(sortOut.order, edges[i].source) < IndexOf(sortOut.order, edges[i].target)

\* an acyclic three-node graph with a fan-in was sorted
C3_Witness ==
    /\ SortCalled
    /\ ~HasCycle(nodes, edges)
    /\ Len(nodes) = 3
    /\ \E t \in NodeIds : Cardinality({p \in EdgeRel(nodes, edges) : p[2] = t}) = 2
    /\ sortOut.ok

\* C4: for a graph with a cycle among the submitted nodes the call fails with
\* the cycle error and returns no order at all.
C4_CycleAlwaysRejected ==
    (SortCalled /\ HasCycle(nodes, edges)) =>
        /\ ~sortOut.ok
        /\ sortOut.error = "cycle"
        /\ sortOut.order = <<>>

\* a cyclic graph with a node outside the cycle (a partial order existed) was rejected
C4_Witness ==
    /\ SortCalled
    /\ HasCycle(nodes, edges)
    /\ node_ids_of(nodes) \ OnCycle(nodes, edges) /= {}
    /\ \E n \in node_ids_of(nodes) : InDegree(nodes, edges)[n] = 0
    /\ sortOut.error = "cycle"


\* ------------------------------------------------------------------------
\* Claims on execute_flow (checked under Spec)
\* ------------------------------------------------------------------------

FlowDone == fpc = "done"

\* the flow passed validation and its loop ran to the end
FlowRan == FlowDone /\ execution_order /= <<>>

LastEvent == events[Len(events)]

FailedNodes == {n \in DOMAIN node_results : ~node_results[n].success}

\* C5: a flow with a cycle is rejected with the cycle error: no capability is
\* invoked, the response carries no node results, no execution order and no
\* execution id, and nothing but the error status is published.
C5_CyclicFlowRejected ==
    (fpc /= "request" /\ nodes /= <<>> /\ HasCycle(nodes, edges)) =>
        /\ FlowDone
        /\ invoked = <<>>
        /\ node_results = <<>>
        /\ response.returned /\ ~response.success
        /\ response.message = <<"cycle">>
        /\ response.node_results = <<>>
        /\ response.execution_order = <<>>
        /\ DOMAIN response = {"returned", "success", "message", "node_results", "execution_order"}
        /\ events = <<StatusMessage("error", <<"cycle">>, None)>>

\* a cyclic flow holding a registered node outside the cycle was answered
C5_Witness ==
    /\ FlowDone
    /\ HasCycle(nodes, edges)
    /\ \E i \in DOMAIN nodes : nodes[i].id \notin OnCycle(nodes, edges) /\ nodes[i].type \in Registered /\ InDegree(nodes, edges)[nodes[i].id] = 0

\* edges that qualify for wiring into node n: they target n and their source,
\* scheduled before n, has a successful result with a non-empty output_path
UsableEdges(n) == {i \in DOMAIN edges :
    /\ edges[i].target = n
    /\ edges[i].source \in DOMAIN node_results
    /\ IndexOf(execution_order, edges[i].source) < IndexOf(execution_order, n)
    /\ node_results[edges[i].source].success
    /\ node_results[edges[i].source].output_path /= PathNone
    /\ node_results[edges[i].source].output_path /= PathEmpty}

FirstOf(S) == CHOOSE i \in S : \A j \in S : i <= j

\* C6: the config handed to a node is node.config; only when 'path' is absent
\* and some edge qualifies, 'path' is the output_path of the first qualifying
\* edge's source. A present 'path' is kept, a failed upstream is never used.
C6_EffectiveConfig ==
    \A n \in DOMAIN inputs :
        IF "path" \in DOMAIN node_map(nodes)[n].config \/ UsableEdges(n) = {}
        THEN inputs[n] = node_map(nodes)[n].config
        ELSE /\ DOMAIN inputs[n] = {"path"}
             /\ inputs[n].path = node_results[edges[FirstOf(UsableEdges(n))].source].output_path

\* a fan-in whose first edge comes from a failed node that left an output_path
\* and whose second edge comes from a successful one: the second is wired in
C6_Witness ==
    /\ Len(edges) = 2
    /\ edges[1].target = edges[2].target
    /\ edges[1].source \in FailedNodes
    /\ node_results[edges[1].source].output_path = OutPath(edges[1].source)
    /\ edges[2].source \in DOMAIN node_results
    /\ node_results[edges[2].source].success
    /\ edges[2].target \in DOMAIN inputs
    /\ inputs[edges[2].target] = [k \in {"path"} |-> OutPath(edges[2].source)]

\* C7 as stated: after a node failed, all scheduled nodes have run and the
\* top-level status is 'completed'.
C7_FailureStillCompleted ==
    (FlowRan /\ FailedNodes /= {}) =>
        /\ DOMAIN node_results = Range(execution_order)
        /\ LastEvent.status = "completed"

\* C7 amended: after a node failed, all scheduled nodes have run and the
\* top-level status is 'error' with success=false, the failed nodes being
\* those marked in the response's node_results; when no node failed the
\* status is 'completed' with success=true.
C7_FailureGivesErrorStatus ==
    FlowRan =>
        /\ DOMAIN node_results = Range(execution_order)
        /\ response.node_results = node_results
        /\ LastEvent.type = "status" /\ LastEvent.node_id = None
        /\ (FailedNodes /= {}) => (LastEvent.status = "error" /\ ~response.success /\ response.message = <<"some nodes failed">>)
        /\ (FailedNodes = {}) => (LastEvent.status = "completed" /\ response.success /\ response.message = <<"flow finished">>)

\* the first of three nodes failed, the two after it ran and succeeded
C7_Witness ==
    /\ FlowRan
    /\ Len(execution_order) = 3
    /\ FailedNodes = {execution_order[1]}
    /\ LastEvent.status = "error"

ErrorKinds == {"unknown", "invalid", "raise"}

C9_ResultsWrittenOnce ==
    /\ DOMAIN writes = DOMAIN node_results
    /\ \A n \in DOMAIN writes : writes[n] = 1
    /\ fpc \in {"node", "try", "executing"} => DOMAIN node_results = {execution_order[i] : i \in 1..(idx - 1)}
    /\ fpc = "finish" => DOMAIN node_results = Range(execution_order)
    /\ FlowRan => (DOMAIN node_results = Range(execution_order) /\ IsInjective(execution_order) /\ Cardinality(DOMAIN response.node_results) = Len(execution_order))

\* the third node is about to start after a failed and a raised one
C9_Witness ==
    /\ fpc = "try"
    /\ idx = 3
    /\ happened[execution_order[1]].kind = "invalid"
    /\ happened[execution_order[2]].kind = "raise"

EveryNodeSucceeded == \A n \in Range(execution_order) : n \in DOMAIN happened /\ happened[n].kind = "return" /\ happened[n].out.success

\* C10: when every node's capability succeeds the flow ends with success=true
\* and final status 'completed', and node_results has exactly one entry, a
\* successful one, per scheduled node.
C10_AllSucceedCompleted ==
    (FlowRan /\ EveryNodeSucceeded) =>
        /\ response.success
        /\ LastEvent = StatusMessage("completed", <<"flow finished">>, None)
        /\ DOMAIN response.node_results = Range(execution_order)
        /\ response.execution_order = execution_order
        /\ \A n \in Range(execution_order) : response.node_results[n].success /\ writes[n] = 1

\* a three-node flow with an edge ran with every node succeeding
C10_Witness ==
    /\ FlowRan
    /\ EveryNodeSucceeded
    /\ Len(execution_order) = 3
    /\ edges /= <<>>

\* ------------------------------------------------------------------------
\* Further claims on topological_sort (checked under SpecSort)
\* ------------------------------------------------------------------------

\* the ids in the order the nodes were submitted
SubmissionOrder(ns) == [i \in DOMAIN ns |-> ns[i].id]

\* the edge list with every edge naming an id that is not submitted taken out
WithoutDangling(ns, es) == SelectSeq(es, LAMBDA e : e.source \in {ns[i].id : i \in DOMAIN ns} /\ e.target \in {ns[i].id : i \in DOMAIN ns})

DanglingEdges(ns, es) == {i \in DOMAIN es : es[i].source \notin {ns[j].id : j \in DOMAIN ns} \/ es[i].target \notin {ns[j].id : j \in DOMAIN ns}}

\* C15: ties among ready nodes are broken by position in the submitted nodes
\* list, so the result is the one obtained when the ready nodes are taken in
\* submission order (for a graph without edges: the submission order itself).
C15_TieBreakBySubmissionOrder ==
    SortCalled => sortOut = topological_sort(nodes, edges, SubmissionOrder(nodes))

\* C16: edges naming an id that is not submitted are ignored: the result is the
\* result for the graph without them, and the call fails only when the
\* remaining edges hold a cycle.
C16_DanglingEdgesIgnored ==
    SortCalled =>
        /\ sortOut = topological_sort(nodes, WithoutDangling(nodes, edges), setOrder)
        /\ sortOut.ok <=> ~HasCycle(nodes, WithoutDangling(nodes, edges))

\* a sorted two-node graph with an edge between the nodes, an edge from an
\* unknown source and an edge to an unknown target
C16_Witness ==
    /\ SortCalled
    /\ sortOut.ok
    /\ Len(nodes) = 2
    /\ Len(WithoutDangling(nodes, edges)) = 1
    /\ \E i, j \in DanglingEdges(nodes, edges) : edges[i].source \notin node_ids_of(nodes) /\ edges[i].target \in node_ids_of(nodes) /\ edges[j].target \notin node_ids_of(nodes) /\ edges[j].source \in node_ids_of(nodes)

\* ------------------------------------------------------------------------
\* Further claims on execute_flow (checked under Spec)
\* ------------------------------------------------------------------------

\* the graph has a duplicate node id or an edge naming an id that is not submitted
Malformed == ~IsInjective(SubmissionOrder(nodes)) \/ DanglingEdges(nodes, edges) /= {}

\* the submission was answered without any node being scheduled
Rejected == FlowDone /\ execution_order = <<>> /\ invoked = <<>> /\ node_results = <<>> /\ response.returned /\ ~response.success

\* the last submitted node carrying id n
LastNodeWithId(n) == nodes[CHOOSE i \in DOMAIN nodes : nodes[i].id = n /\ \A j \in DOMAIN nodes : nodes[j].id = n => j <= i]

NodeOutcomeEvents(n) == {i \in DOMAIN events : events[i].type = "status" /\ events[i].node_id = n /\ events[i].status \in {"completed", "error"}}

\* C18: for every node, a status event 'error' scoped to it is published iff
\* its stored result has success=false, one with 'completed' iff it has
\* success=true, and the event carries the message of the stored result.
C18_StatusEventMatchesResult ==
    \A n \in NodeIds :
        /\ n \in DOMAIN node_results <=> NodeOutcomeEvents(n) /= {}
        /\ Cardinality(NodeOutcomeEvents(n)) <= 1
        /\ \A i \in NodeOutcomeEvents(n) :
             /\ events[i].status = "error" <=> ~node_results[n].success
             /\ events[i].status = "completed" <=> node_results[n].success
             /\ events[i].message = node_results[n].message

\* a flow ended with one node reported completed, one reported failed by its
\* capability and one failed by an exception
C18_Witness ==
    /\ FlowRan
    /\ Len(execution_order) = 3
    /\ \E a, b, c \in Range(execution_order) :
         /\ happened[a].kind = "return" /\ happened[a].out.success
         /\ happened[b].kind = "return" /\ ~happened[b].out.success
         /\ happened[c].kind \in {"raise", "invalid", "unknown"}

\* ------------------------------------------------------------------------
\* Further claims on the tasks API (checked under SpecTasks)
\* ------------------------------------------------------------------------

\* C19: execute_task stores a pending record before it returns and returns
\* with the run not yet started; from then on get_task finds the record, and
\* the first change of its status is from pending to running.
C19_PendingThenRunning ==
    [][/\ \A t \in DOMAIN tasks' \ DOMAIN tasks :
            /\ get_task(tasks', t).found
            /\ get_task(tasks', t).task.status = "pending"
            /\ runPc'[t] = "created"
       /\ \A t \in DOMAIN tasks :
            /\ get_task(tasks', t).found
            /\ (tasks[t].status = "pending" /\ tasks'[t].status /= "pending") => tasks'[t].status = "running"
            /\ (tasks[t].status /= "pending") => tasks'[t].status /= "pending"]_vars

\* a cancel request met the task while it was pending, and the run then
\* started it
C19_Witness ==
    \E t \in DOMAIN tasks :
        /\ tasks[t].status = "running"
        /\ runPc[t] = "sleep1"
        /\ broadcasts[t] = <<"task_started">>

\* websockets that were connected when the broadcast of coroutine c began, are
\* still open, and were not sent the message although the broadcast is over
\* (a broadcast that returns has exhausted its loop; one that raised has not)
LeftOut(c) == IF iters[c].raised THEN {w \in iters[c].audience \ iters[c].visited : wsState[w] = "open"} ELSE {}

\* C12: a publish sends the event once to every subscriber connected at
\* publish time; a failing subscriber does not keep the others from being sent
\* the event.
C12_EverySubscriberSent ==
    \A c \in DOMAIN iters : LeftOut(c) = {}


\* ------------------------------------------------------------------------
\* Specification SpecEvents: the events of one execution and its subscribers
\* (websocket.py ConnectionManager, execution.py 264-328)
\* ------------------------------------------------------------------------

\* The number of events the execution publishes
MaxEvents == 2

EventIds == 1..MaxEvents

\* What a websocket receives first: the "connected" notice of its endpoint
ConnectedNotice == 0

\* The execution whose events are published, and another one
RunningExecution == "T"

ExecutionIds == {"T", "U"}

\* A set of websockets built from every subscriber there is
TaskConnectionsAll(task_id, active, global) ==
    UNION {active[t] : t \in DOMAIN active} \cup global

\* websocket.py 66: the set send_to_task iterates, built once per call
TaskConnections(task_id, active, global) ==
    (IF task_id \in DOMAIN active THEN active[task_id] ELSE {}) \cup global

PubRec(kind, pc, audience, visited, waiting) ==
    [kind |-> kind, pc |-> pc, audience |-> audience, visited |-> visited, waiting |-> waiting]

\* The websockets a send_to_task iterating the live sets would still visit
RemainingLive(p, live) == live \ p.visited

\* websocket.py 68: the websockets the loop has still to visit; it iterates
\* the set built at line 66, whatever connected or disconnected since
Remaining(p, live) == p.audience \ p.visited

\* websocket.py 70: connection.send_json(message) up to its await: the event
\* is written to a websocket whose client is reading
Written(rcv, s, e) ==
    IF hubState[s] = "open" THEN [rcv EXCEPT ![s] = Append(@, e)] ELSE rcv

\* websocket.py 66-70: send_to_task from its call to its first await
SendToTaskStart(e, kind, others) ==
    LET aud == TaskConnections(RunningExecution, active_connections, global_connections)
    IN  IF aud = {}
        THEN /\ pubs' = others @@ (e :> PubRec(kind, "done", {}, {}, None))
             /\ received' = received
             /\ orch' = 0
        ELSE \E s \in aud :
             /\ pubs' = others @@ (e :> PubRec(kind, "sending", aud, {}, s))
             /\ received' = Written(received, s, e)
             /\ orch' = IF kind = "orchestrator" THEN e ELSE orch

\* execution.py 268, 278, 311, 322, 327: execute_flow awaits send_status or
\* send_log; it goes on only when send_to_task returned
OrchPublish ==
    /\ orch = 0
    /\ published < MaxEvents
    /\ published' = published + 1
    /\ SendToTaskStart(published + 1, "orchestrator", pubs)
    /\ UNCHANGED <<active_connections, hubTask, hubLast, global_connections, hubState, joined>>
    /\ UNCHANGED <<reqVars, sortOut, flowVars, taskVars, regVars, histVars, storeVars>>

\* execution.py 285-291: the capability calls sync_on_progress or sync_on_log,
\* which hands the send to the loop and returns without waiting for it
CallbackPublish ==
    /\ orch = 0
    /\ published < MaxEvents
    /\ published' = published + 1
    /\ pubs' = pubs @@ ((published + 1) :> PubRec("callback", "scheduled", {}, {}, None))
    /\ UNCHANGED <<active_connections, hubTask, hubLast, global_connections, hubState, received, joined, orch>>
    /\ UNCHANGED <<reqVars, sortOut, flowVars, taskVars, regVars, histVars, storeVars>>

\* The loop starts a handed-over send (oldest first) while execute_flow is
\* suspended
CallbackStart(e) ==
    /\ e \in DOMAIN pubs
    /\ pubs[e].pc = "scheduled"
    /\ \A d \in DOMAIN pubs : d < e => pubs[d].pc /= "scheduled"
    /\ SendToTaskStart(e, "callback", [d \in DOMAIN pubs \ {e} |-> pubs[d]])
    /\ UNCHANGED <<active_connections, hubTask, hubLast, global_connections, hubState, joined, published>>
    /\ UNCHANGED <<reqVars, sortOut, flowVars, taskVars, regVars, histVars, storeVars>>

\* websocket.py 68-73: the awaited send_json returns or raises (the exception
\* is swallowed); the loop goes to the next websocket or send_to_task returns.
\* A send to a client that stopped reading does not return.
PubStep(e) ==
    /\ e \in DOMAIN pubs
    /\ pubs[e].pc = "sending"
    /\ hubState[pubs[e].waiting] /= "stuck"
    /\ LET p == [pubs[e] EXCEPT !.visited = @ \cup {pubs[e].waiting}]
           rest == Remaining(p, TaskConnections(RunningExecution, active_connections, global_connections))
       IN  IF rest = {}
           THEN /\ pubs' = [pubs EXCEPT ![e] = [p EXCEPT !.pc = "done", !.waiting = None]]
                /\ received' = received
                /\ orch' = IF orch = e THEN 0 ELSE orch
           ELSE \E s \in rest :
                /\ pubs' = [pubs EXCEPT ![e] = [p EXCEPT !.waiting = s]]
                /\ received' = Written(received, s, e)
                /\ orch' = orch
    /\ UNCHANGED <<active_connections, hubTask, hubLast, global_connections, hubState, joined, published>>
    /\ UNCHANGED <<reqVars, sortOut, flowVars, taskVars, regVars, histVars, storeVars>>

\* The events whose send_to_task had built its set of websockets already
Started == {e \in DOMAIN pubs : pubs[e].pc /= "scheduled"}

\* websocket.py 181-200, 27-39: /ws/tasks/{task_id}: connect, then the notice
HubConnect(s, task_id) ==
    /\ hubState[s] = "new"
    /\ hubState' = [hubState EXCEPT ![s] = "open"]
    /\ hubTask' = [hubTask EXCEPT ![s] = task_id]
    /\ active_connections' = [t \in DOMAIN active_connections \cup {task_id} |->
                                 IF t = task_id
                                 THEN (IF t \in DOMAIN active_connections THEN active_connections[t] ELSE {}) \cup {s}
                                 ELSE active_connections[t]]
    /\ received' = [received EXCEPT ![s] = <<ConnectedNotice>>]
    /\ joined' = [joined EXCEPT ![s] = Started]
    /\ UNCHANGED <<hubLast, global_connections, published, pubs, orch>>
    /\ UNCHANGED <<reqVars, sortOut, flowVars, taskVars, regVars, histVars, storeVars>>

\* websocket.py 220-233, 27-42: /ws/system: connect, then the notice
HubConnectSystem(s) ==
    /\ hubState[s] = "new"
    /\ hubState' = [hubState EXCEPT ![s] = "open"]
    /\ global_connections' = global_connections \cup {s}
    /\ received' = [received EXCEPT ![s] = <<ConnectedNotice>>]
    /\ joined' = [joined EXCEPT ![s] = Started]
    /\ UNCHANGED <<active_connections, hubTask, hubLast, published, pubs, orch>>
    /\ UNCHANGED <<reqVars, sortOut, flowVars, taskVars, regVars, histVars, storeVars>>

\* The client stops reading its websocket and leaves it open
HubStall(s) ==
    /\ hubState[s] = "open"
    /\ hubState' = [hubState EXCEPT ![s] = "stuck"]
    /\ UNCHANGED <<active_connections, hubTask, hubLast, global_connections, received, joined, published, pubs, orch>>
    /\ UNCHANGED <<reqVars, sortOut, flowVars, taskVars, regVars, histVars, storeVars>>

\* The client closes its websocket
HubClientClose(s) ==
    /\ hubState[s] \in {"open", "stuck"}
    /\ hubState' = [hubState EXCEPT ![s] = "closing"]
    /\ UNCHANGED <<active_connections, hubTask, hubLast, global_connections, received, joined, published, pubs, orch>>
    /\ UNCHANGED <<reqVars, sortOut, flowVars, taskVars, regVars, histVars, storeVars>>

\* websocket.py 44-57: ConnectionManager.disconnect: the websocket leaves the
\* set of its task id, an emptied set is deleted; without a task id (or with
\* one that has no set) it leaves global_connections
disconnect(active, websocket, task_id) ==
    IF task_id /= None /\ task_id \in DOMAIN active
    THEN [t \in {u \in DOMAIN active : u /= task_id \/ active[u] \ {websocket} /= {}} |->
             IF t = task_id THEN active[t] \ {websocket} ELSE active[t]]
    ELSE active

disconnect_global(active, global, websocket, task_id) ==
    IF task_id /= None /\ task_id \in DOMAIN active THEN global ELSE global \ {websocket}

\* websocket.py 211-218, 244-251, 44-57: receive_text raises WebSocketDisconnect
\* and the endpoint's finally calls manager.disconnect
HubDisconnect(s) ==
    /\ hubState[s] = "closing"
    /\ hubState' = [hubState EXCEPT ![s] = "gone"]
    /\ active_connections' = disconnect(active_connections, s, hubTask[s])
    /\ global_connections' = disconnect_global(active_connections, global_connections, s, hubTask[s])
    /\ UNCHANGED <<hubTask, hubLast, received, joined, published, pubs, orch>>
    /\ UNCHANGED <<reqVars, sortOut, flowVars, taskVars, regVars, histVars, storeVars>>

\* The number of client messages the endpoints handle
MaxMessages == 1

\* What a client sends: a ping, another JSON object, text that is not JSON,
\* or JSON that is not an object (a list, a number, a string, null)
ClientMessages == {"ping", "object", "not_json", "not_object"}

\* The {"type": "pong"} answer in a websocket's received sequence
Pong == -1

\* websocket.py 203-218 (and 235-251): one turn of the receive loop.
\* json.loads raises JSONDecodeError on text that is not JSON (caught, line
\* 214); message.get raises AttributeError on JSON that is not an object,
\* which no except clause catches: the finally disconnects and the endpoint ends
HubClientMessage(s, message) ==
    /\ hubState[s] = "open"
    /\ hubLast.n < MaxMessages
    /\ hubLast' = [n |-> hubLast.n + 1, socket |-> s, message |-> message]
    /\ received' = IF message = "ping" THEN [received EXCEPT ![s] = Append(@, Pong)] ELSE received
    /\ IF message = "not_object"
       THEN /\ hubState' = [hubState EXCEPT ![s] = "gone"]
            /\ active_connections' = disconnect(active_connections, s, hubTask[s])
            /\ global_connections' = disconnect_global(active_connections, global_connections, s, hubTask[s])
       ELSE UNCHANGED <<hubState, active_connections, global_connections>>
    /\ UNCHANGED <<hubTask, joined, published, pubs, orch>>
    /\ UNCHANGED <<reqVars, sortOut, flowVars, taskVars, regVars, histVars, storeVars>>

InitEvents ==
    /\ nodes = <<>>
    /\ edges = <<>>
    /\ setOrder = <<>>
    /\ sortOut = NotCalled
    /\ FlowIdle
    /\ TasksIdle
    /\ HubIdle
    /\ RegistryIdle
    /\ HistoryIdle
    /\ FlowsIdle

NextEvents ==
    \/ OrchPublish
    \/ CallbackPublish
    \/ \E e \in EventIds : CallbackStart(e)
    \/ \E e \in EventIds : PubStep(e)
    \/ \E s \in HubSockets : HubConnect(s, RunningExecution)
    \/ \E s \in HubSockets : HubConnectSystem(s)
    \/ \E s \in HubSockets : HubStall(s)
    \/ \E s \in HubSockets : HubClientClose(s)
    \/ \E s \in HubSockets : HubDisconnect(s)

SpecEvents == InitEvents /\ [][NextEvents]_vars

\* ------------------------------------------------------------------------
\* Claims on the events of an execution (SpecEvents)
\* ------------------------------------------------------------------------

\* C11: every subscriber receives the events of the execution in the order in
\* which they were published (event ids count the publishes), so two
\* subscribers never see two events in different orders.
C11_ReceivedInPublishOrder ==
    \A s \in HubSockets : \A i, j \in DOMAIN received[s] :
        (i < j /\ received[s][i] \in EventIds /\ received[s][j] \in EventIds)
            => received[s][i] < received[s][j]

\* C13: a publish never waits on a subscriber that stopped reading.
C13_PublishNeverWaitsOnStuck ==
    \A e \in DOMAIN pubs :
        pubs[e].pc = "sending" => hubState[pubs[e].waiting] /= "stuck"

MaxInstances == 2

\* The names get_adapter and register_adapter are called with: two registered
\* at import and one that is not
AdapterNames == {"crashu", "enginev", "nosuch"}

\* Whether _import_adapter_class finds the module of a class path
AdapterPaths == {"importable", "missing"}

GetResult(outcome, instance, cache, created) ==
    [outcome |-> outcome, instance |-> instance, cache |-> cache, created |-> created]

\* A get_adapter that does not look into the cache
get_adapter_fresh(name) ==
    IF name \notin DOMAIN registry
    THEN GetResult("ValueError", 0, instances, instantiated)
    ELSE IF registry[name] \notin importFails
    THEN GetResult("created", instantiated + 1,
                   [n \in DOMAIN instances \cup {name} |->
                        IF n = name THEN instantiated + 1 ELSE instances[n]],
                   instantiated + 1)
    ELSE GetResult("ImportError", 0, instances, instantiated)

\* A get_adapter that remembers a failed load in the cache
get_adapter_poisoned(name) ==
    IF name \in DOMAIN instances
    THEN GetResult(IF instances[name] = 0 THEN "ImportError" ELSE "cached",
                   instances[name], instances, instantiated)
    ELSE IF name \notin DOMAIN registry
    THEN GetResult("ValueError", 0, instances, instantiated)
    ELSE IF registry[name] \notin importFails
    THEN GetResult("created", instantiated + 1,
                   instances @@ (name :> (instantiated + 1)), instantiated + 1)
    ELSE GetResult("ImportError", 0, instances @@ (name :> 0), instantiated)

\* adapters/__init__.py 64-94: get_adapter: what it returns or raises, the
\* cache it leaves and the number of instances created so far
get_adapter(name) ==
    IF name \in DOMAIN instances
    THEN GetResult("cached", instances[name], instances, instantiated)
    ELSE IF name \notin DOMAIN registry
    THEN GetResult("ValueError", 0, instances, instantiated)
    ELSE IF registry[name] \notin importFails
    THEN GetResult("created", instantiated + 1,
                   instances @@ (name :> (instantiated + 1)), instantiated + 1)
    ELSE GetResult("ImportError", 0, instances, instantiated)

GetAdapter(name) ==
    /\ LET r == get_adapter(name)
       IN  /\ r.created <= MaxInstances
           /\ instances' = r.cache
           /\ instantiated' = r.created
           /\ lastCall' = [op |-> "get", name |-> name, outcome |-> r.outcome, instance |-> r.instance]
           /\ loadFailed' = IF r.outcome = "ImportError" THEN loadFailed \cup {name} ELSE loadFailed
    /\ UNCHANGED <<registry, importFails>>
    /\ UNCHANGED <<reqVars, sortOut, flowVars, taskVars, hubVars, histVars, storeVars>>

\* adapters/__init__.py 134-145: register_adapter
RegisterAdapter(name, adapter_path) ==
    /\ registry' = [n \in DOMAIN registry \cup {name} |->
                        IF n = name THEN adapter_path ELSE registry[n]]
    /\ instances' = [n \in DOMAIN instances \ {name} |-> instances[n]]
    /\ lastCall' = [op |-> "register", name |-> name, outcome |-> None, instance |-> 0]
    /\ UNCHANGED <<instantiated, importFails, loadFailed>>
    /\ UNCHANGED <<reqVars, sortOut, flowVars, taskVars, hubVars, histVars, storeVars>>

\* adapters/__init__.py 148-150: clear_adapter_cache
ClearAdapterCache ==
    /\ instances' = <<>>
    /\ lastCall' = [op |-> "clear", name |-> None, outcome |-> None, instance |-> 0]
    /\ UNCHANGED <<registry, instantiated, importFails, loadFailed>>
    /\ UNCHANGED <<reqVars, sortOut, flowVars, taskVars, hubVars, histVars, storeVars>>

\* adapters/__init__.py 57-58: importlib.import_module finds a module it did
\* not find before (the module or a package it needs was installed since)
ModuleInstalled(adapter_path) ==
    /\ adapter_path \in importFails
    /\ importFails' = importFails \ {adapter_path}
    /\ lastCall' = [op |-> "install", name |-> None, outcome |-> None, instance |-> 0]
    /\ UNCHANGED <<registry, instances, instantiated, loadFailed>>
    /\ UNCHANGED <<reqVars, sortOut, flowVars, taskVars, hubVars, histVars, storeVars>>

InitRegistry ==
    /\ nodes = <<>>
    /\ edges = <<>>
    /\ setOrder = <<>>
    /\ sortOut = NotCalled
    /\ FlowIdle
    /\ TasksIdle
    /\ HubIdle
    /\ RegistryIdle
    /\ HistoryIdle
    /\ FlowsIdle

NextRegistry ==
    \/ \E name \in AdapterNames : GetAdapter(name)
    \/ \E name \in AdapterNames, adapter_path \in AdapterPaths : RegisterAdapter(name, adapter_path)
    \/ ClearAdapterCache
    \/ \E adapter_path \in AdapterPaths : ModuleInstalled(adapter_path)

SpecRegistry == InitRegistry /\ [][NextRegistry]_vars

\* ------------------------------------------------------------------------
\* Claims on the adapter registry (SpecRegistry)
\* ------------------------------------------------------------------------

\* What a step that is a call get_adapter(n) must do
GetIsMemoized(n) ==
    IF n \in DOMAIN instances
    THEN /\ lastCall'.outcome = "cached"
         /\ lastCall'.instance = instances[n]
         /\ instantiated' = instantiated
         /\ instances' = instances
    ELSE IF n \notin DOMAIN registry
    THEN /\ lastCall'.outcome = "ValueError"
         /\ instances' = instances
         /\ instantiated' = instantiated
    ELSE /\ instantiated' <= instantiated + 1
         /\ lastCall'.outcome = "created"
                => (n \in DOMAIN instances' /\ instances'[n] = lastCall'.instance)

\* C20: a call get_adapter(n) for a cached name returns the cached instance
\* and creates none; a created instance is cached; a cached instance stays
\* until clear_adapter_cache or register_adapter(n); for an unregistered name
\* the call fails with ValueError and leaves the cache as it was.
C20_GetAdapterMemoized ==
    [][ /\ \A n \in AdapterNames :
              (lastCall'.op = "get" /\ lastCall'.name = n) => GetIsMemoized(n)
        /\ \A n \in DOMAIN instances :
              IF n \in DOMAIN instances'
              THEN instances'[n] = instances[n]
              ELSE lastCall'.op = "clear" \/ (lastCall'.op = "register" /\ lastCall'.name = n)
      ]_vars

\* A later call returned the instance an earlier call had created and cached
C20_Witness ==
    /\ lastCall.op = "get"
    /\ lastCall.outcome = "cached"
    /\ lastCall.name \in DOMAIN instances
    /\ instances[lastCall.name] = lastCall.instance
    /\ instantiated >= 1

\* What a step that is a call get_adapter(n) must do about a failing load
GetRetriesLoad(n) ==
    /\ lastCall'.outcome = "ImportError"
            => (instances' = instances /\ n \notin DOMAIN instances')
    /\ (n \in loadFailed /\ n \notin DOMAIN instances /\ registry[n] \notin importFails)
            => /\ lastCall'.outcome = "created"
               /\ n \in DOMAIN instances'
               /\ instances'[n] = lastCall'.instance
               /\ \A m \in DOMAIN instances : m \in DOMAIN instances' /\ instances'[m] = instances[m]

\* C21: a get_adapter call whose load fails caches nothing and leaves the
\* cached instances of the other names as they were; a later call for a name
\* whose load failed loads again and succeeds when the import now succeeds.
C21_FailedLoadNotCached ==
    [][ \A n \in DOMAIN registry :
            (lastCall'.op = "get" /\ lastCall'.name = n) => GetRetriesLoad(n) ]_vars

\* A call for a name whose load had failed created and cached its instance
C21_Witness ==
    /\ lastCall.op = "get"
    /\ lastCall.outcome = "created"
    /\ lastCall.name \in loadFailed
    /\ lastCall.name \in DOMAIN instances
    /\ registry[lastCall.name] = "missing"
    /\ \E m \in DOMAIN instances : m /= lastCall.name

\* ------------------------------------------------------------------------
\* The error of topological_sort (SpecSort)
\* ------------------------------------------------------------------------

\* The node ids an error text names
IdsNamed(error) == {n \in NodeIds : error = n}

\* C22: when topological_sort fails, its error names node ids and at least
\* one of the named ids lies on a cycle.
C22_CycleErrorNamesNodes ==
    (SortCalled /\ ~sortOut.ok)
        => IdsNamed(sortOut.error) \cap OnCycle(nodes, edges) /= {}

\* C22 (amended): when topological_sort fails, its error is the one fixed
\* cyclic-dependency text, which names no node id, and a node lies on a cycle.
C22_CycleErrorIsFixedText ==
    (SortCalled /\ ~sortOut.ok)
        => /\ sortOut.error = "cycle"
           /\ IdsNamed(sortOut.error) = {}
           /\ OnCycle(nodes, edges) /= {}

\* topological_sort failed on a graph where a node off the cycle was scheduled
C22_Witness ==
    /\ SortCalled
    /\ ~sortOut.ok
    /\ OnCycle(nodes, edges) /= {}
    /\ OnCycle(nodes, edges) /= node_ids_of(nodes)
    /\ \E n \in node_ids_of(nodes) \ OnCycle(nodes, edges) : InDegree(nodes, edges)[n] = 0

\* ------------------------------------------------------------------------
\* Specification SpecHistory: GET requests to the tasks router (api/tasks.py)
\* ------------------------------------------------------------------------

\* The number of tasks stored and of clock readings
MaxHistory == 3

\* uuid4 strings, in the order execute_task draws them
TaskUuids == <<"t1", "t2", "t3", "t4", "t5">>

\* tasks.py 65, 133, 141, 161: the HTTP routes in the order they are declared
TaskRoutes ==
    << [method |-> "POST", pattern |-> <<"execute">>, handler |-> "execute_task"],
       [method |-> "GET", pattern |-> <<"{task_id}">>, handler |-> "get_task"],
       [method |-> "POST", pattern |-> <<"{task_id}", "cancel">>, handler |-> "cancel_task"],
       [method |-> "GET", pattern |-> <<"history">>, handler |-> "get_task_history"] >>

\* A path parameter matches any one segment, a literal only itself
PathMatches(pattern, path) ==
    /\ Len(pattern) = Len(path)
    /\ \A i \in DOMAIN pattern : pattern[i] = "{task_id}" \/ pattern[i] = path[i]

\* The router answers with the first declared route that matches
Dispatch(method, path) ==
    LET hits == {i \in DOMAIN TaskRoutes :
                    TaskRoutes[i].method = method /\ PathMatches(TaskRoutes[i].pattern, path)}
    IN  IF hits = {} THEN "none"
        ELSE TaskRoutes[CHOOSE i \in hits : \A j \in hits : i <= j].handler

RECURSIVE SortedByStartDesc(_)
\* tasks.py 164-168: sorted(..., key=startedAt, reverse=True): stable, the
\* records with equal keys keep their order
SortedByStartDesc(recs) ==
    IF recs = <<>> THEN <<>>
    ELSE LET rest == SortedByStartDesc(Tail(recs))
             x == Head(recs)
             before == SelectSeq(rest, LAMBDA r : r.startedAt > x.startedAt)
             after == SelectSeq(rest, LAMBDA r : r.startedAt <= x.startedAt)
         IN  before \o <<x>> \o after

\* tasks.py 169: sorted_tasks[:limit]; a negative limit counts from the end
SliceTo(recs, limit) ==
    LET n == IF limit >= 0 THEN limit ELSE Len(recs) + limit
    IN  IF n <= 0 THEN <<>> ELSE SubSeq(recs, 1, IF n < Len(recs) THEN n ELSE Len(recs))

\* tasks.py 161-169: get_task_history
get_task_history(store, limit) ==
    [status |-> 200, body |-> SliceTo(SortedByStartDesc(store), limit)]

\* tasks.py 133-138: get_task with the path parameter it was given
get_task_by_id(store, task_id) ==
    IF \E i \in DOMAIN store : store[i].id = task_id
    THEN [status |-> 200, body |-> SelectSeq(store, LAMBDA r : r.id = task_id)]
    ELSE [status |-> 404, body |-> <<>>]

HandleGet(path, limit) ==
    LET handler == Dispatch("GET", path)
    IN  IF handler = "get_task" THEN get_task_by_id(taskStore, path[1])
        ELSE IF handler = "get_task_history" THEN get_task_history(taskStore, limit)
        ELSE [status |-> 404, body |-> <<>>]

\* tasks.py 67-77: execute_task stores a record under a new uuid with
\* startedAt = now; the clock does not run backwards
ExecuteTaskAt(now) ==
    /\ Len(taskStore) < MaxHistory
    /\ IF taskStore = <<>> THEN TRUE ELSE now >= taskStore[Len(taskStore)].startedAt
    /\ taskStore' = Append(taskStore, [id |-> TaskUuids[Len(taskStore) + 1], startedAt |-> now])
    /\ UNCHANGED httpLast
    /\ UNCHANGED <<reqVars, sortOut, flowVars, taskVars, hubVars, regVars, storeVars>>

\* A client sends GET /tasks/<path>?limit=<limit>
HttpGet(path, limit) ==
    /\ httpLast' = [method |-> "GET", path |-> path, limit |-> limit, response |-> HandleGet(path, limit)]
    /\ UNCHANGED taskStore
    /\ UNCHANGED <<reqVars, sortOut, flowVars, taskVars, hubVars, regVars, storeVars>>

GetPaths == {<<"history">>} \cup {<<TaskUuids[i]>> : i \in 1..MaxHistory}

InitHistory ==
    /\ nodes = <<>>
    /\ edges = <<>>
    /\ setOrder = <<>>
    /\ sortOut = NotCalled
    /\ FlowIdle
    /\ TasksIdle
    /\ HubIdle
    /\ RegistryIdle
    /\ HistoryIdle
    /\ FlowsIdle

NextHistory ==
    \/ \E now \in 1..MaxHistory : ExecuteTaskAt(now)
    \/ \E path \in GetPaths, limit \in -1..MaxHistory : HttpGet(path, limit)

SpecHistory == InitHistory /\ [][NextHistory]_vars

\* ------------------------------------------------------------------------
\* Claims on listing executions (SpecHistory)
\* ------------------------------------------------------------------------

\* C23: the answer to GET /tasks/history?limit=n holds at most n records,
\* all of them stored, the most recently started first, and no stored record
\* left out started later than a returned one.
C23_HistoryMostRecentFirst ==
    (httpLast.method = "GET" /\ httpLast.path = <<"history">> /\ httpLast.limit >= 0)
        => /\ httpLast.response.status = 200
           /\ LET body == httpLast.response.body
              IN  /\ Len(body) <= httpLast.limit
                  /\ \A i \in DOMAIN body : \E k \in DOMAIN taskStore : taskStore[k] = body[i]
                  /\ \A i, j \in DOMAIN body : i < j => body[i].startedAt >= body[j].startedAt
                  /\ \A k \in DOMAIN taskStore : \A i \in DOMAIN body :
                        taskStore[k].startedAt > body[i].startedAt
                            => \E j \in DOMAIN body : body[j] = taskStore[k]

\* ------------------------------------------------------------------------
\* Specification SpecFlows: stored flows (api/flows.py)
\* ------------------------------------------------------------------------

\* The flow ids requests name and create_flow draws
FlowIds == {"f1", "f2", "f3"}

\* What a flow file can hold: a flow, text that is not JSON, or JSON that
\* is not a flow (a required field missing, not an object)
FileContents == {"flow", "not_json", "not_a_flow"}

\* What the server answers when a handler raises something that is not an
\* HTTPException
Unhandled == 500

\* flows.py 62-67: _load_flow: HTTPException 404 without a file; json.load
\* and Flow(**...) raise on a file that does not hold a flow, and nothing
\* catches what they raise
_load_flow(files, flow_id) ==
    IF flow_id \notin DOMAIN files THEN 404
    ELSE IF files[flow_id] = "flow" THEN 200
    ELSE Unhandled

FlowSeen(flow_id) == IF flow_id \in DOMAIN flowFiles THEN flowFiles[flow_id] ELSE None

\* flows.py 106-109: get_flow
GetFlow(flow_id) ==
    /\ flowLast' = [op |-> "get", flow_id |-> flow_id, content |-> FlowSeen(flow_id),
                    status |-> _load_flow(flowFiles, flow_id)]
    /\ UNCHANGED flowFiles
    /\ UNCHANGED <<reqVars, sortOut, flowVars, taskVars, hubVars, regVars, histVars>>

\* flows.py 88-103, 70-73: create_flow saves a flow under a new uuid
CreateFlow(flow_id) ==
    /\ flow_id \notin DOMAIN flowFiles
    /\ flowFiles' = flowFiles @@ (flow_id :> "flow")
    /\ flowLast' = [op |-> "create", flow_id |-> flow_id, content |-> None, status |-> 200]
    /\ UNCHANGED <<reqVars, sortOut, flowVars, taskVars, hubVars, regVars, histVars>>

\* flows.py 131-138: delete_flow
DeleteFlow(flow_id) ==
    /\ flowFiles' = [f \in DOMAIN flowFiles \ {flow_id} |-> flowFiles[f]]
    /\ flowLast' = [op |-> "delete", flow_id |-> flow_id, content |-> FlowSeen(flow_id),
                    status |-> IF flow_id \in DOMAIN flowFiles THEN 200 ELSE 404]
    /\ UNCHANGED <<reqVars, sortOut, flowVars, taskVars, hubVars, regVars, histVars>>

\* Something else than the server writes a file of config/flows (an editor,
\* a sync tool, a write cut short)
FileWritten(flow_id, content) ==
    /\ content /= "flow"
    /\ FlowSeen(flow_id) /= content
    /\ flowFiles' = [f \in DOMAIN flowFiles \cup {flow_id} |->
                        IF f = flow_id THEN content ELSE flowFiles[f]]
    /\ UNCHANGED flowLast
    /\ UNCHANGED <<reqVars, sortOut, flowVars, taskVars, hubVars, regVars, histVars>>

InitFlows ==
    /\ nodes = <<>>
    /\ edges = <<>>
    /\ setOrder = <<>>
    /\ sortOut = NotCalled
    /\ FlowIdle
    /\ TasksIdle
    /\ HubIdle
    /\ RegistryIdle
    /\ HistoryIdle
    /\ FlowsIdle

NextFlows ==
    \/ \E flow_id \in FlowIds : GetFlow(flow_id)
    \/ \E flow_id \in FlowIds : CreateFlow(flow_id)
    \/ \E flow_id \in FlowIds : DeleteFlow(flow_id)
    \/ \E flow_id \in FlowIds, content \in FileContents : FileWritten(flow_id, content)

SpecFlows == InitFlows /\ [][NextFlows]_vars

\* ------------------------------------------------------------------------
\* Claims on stored flows (SpecFlows)
\* ------------------------------------------------------------------------

\* C25: GET /flows/{flow_id} answers 200 for a file that holds a flow, 404
\* when there is no file, 400 when the file is not valid JSON, and never
\* with an unhandled failure.
C25_GetFlowAnswers ==
    flowLast.op = "get"
        => /\ flowLast.content = "flow" => flowLast.status = 200
           /\ flowLast.content = None => flowLast.status = 404
           /\ flowLast.content = "not_json" => flowLast.status = 400
           /\ flowLast.status /= Unhandled

\* ------------------------------------------------------------------------
\* The order of node runs and of status events in execute_flow (Spec)
\* ------------------------------------------------------------------------

\* positions of the status events 'running' scoped to node n
NodeRunningEvents(n) == {i \in DOMAIN events : events[i].type = "status" /\ events[i].node_id = n /\ events[i].status = "running"}

\* the nodes whose turn has begun, in the order their 'running' status was published
StartedNodes == {n \in NodeIds : NodeRunningEvents(n) /= {}}

\* whether the loop of execute_flow has been entered
LoopEntered == fpc \in {"node", "try", "executing", "finish"} \/ FlowRan

\* how many nodes of execution_order have had their turn begun
StartedCount == IF fpc = "node" THEN idx - 1 ELSE IF fpc \in {"try", "executing"} THEN idx ELSE Len(execution_order)

\* C26: at most one node is executing at any time, the nodes start in the
\* order topological_sort returned, and a node starts only when each of its
\* direct predecessors has an entry in node_results.
C26_SequentialInScheduledOrder ==
    LoopEntered =>
        /\ StartedNodes = {execution_order[i] : i \in 1..StartedCount}
        /\ \A i, j \in 1..StartedCount :
              i < j => \A a \in NodeRunningEvents(execution_order[i]), b \in NodeRunningEvents(execution_order[j]) : a < b
        /\ Cardinality(StartedNodes \ DOMAIN node_results) <= 1
        /\ \A n \in Range(invoked) : n \in StartedNodes
        /\ \A n \in StartedNodes : \A i \in DOMAIN edges :
              (edges[i].target = n /\ edges[i].source \in node_ids_of(nodes))
                  => edges[i].source \in DOMAIN node_results

\* the third node is executing and both other nodes are its direct predecessors
C26_Witness ==
    /\ fpc = "executing"
    /\ idx = 3
    /\ \A p \in node_ids_of(nodes) \ {CurrentNodeId} :
          \E i \in DOMAIN edges : edges[i].source = p /\ edges[i].target = CurrentNodeId

\* positions of the flow-level status events with a status in S
FlowEvents(S) == {i \in DOMAIN events : events[i].type = "status" /\ events[i].node_id = None /\ events[i].status \in S}

\* positions of the events scoped to a node
NodeEvents == {i \in DOMAIN events : events[i].node_id /= None}

\* C30: for every scheduled node a 'running' status scoped to it is published
\* before its capability is invoked, and exactly one terminal status scoped to
\* it after its result is stored and before the next node's 'running' status;
\* the flow-level 'running' status precedes every node event and exactly one
\* flow-level final status follows all of them.
C30_StatusEventsInOrder ==
    LoopEntered =>
        /\ FlowEvents({"running"}) = {1}
        /\ \A i \in NodeEvents : i > 1
        /\ \A n \in Range(invoked) : Cardinality(NodeRunningEvents(n)) = 1
        /\ \A k \in 1..StartedCount :
              LET n == execution_order[k]
              IN  /\ Cardinality(NodeRunningEvents(n)) = 1
                  /\ Cardinality(NodeOutcomeEvents(n)) = IF n \in DOMAIN node_results THEN 1 ELSE 0
                  /\ \A r \in NodeRunningEvents(n), t \in NodeOutcomeEvents(n) : r < t
                  /\ k < StartedCount
                        => /\ NodeOutcomeEvents(n) /= {}
                           /\ \A t \in NodeOutcomeEvents(n), r \in NodeRunningEvents(execution_order[k + 1]) : t < r
        /\ IF FlowRan
           THEN /\ FlowEvents({"completed", "error"}) = {Len(events)}
                /\ \A k \in DOMAIN execution_order : NodeOutcomeEvents(execution_order[k]) /= {}
           ELSE FlowEvents({"completed", "error"}) = {}

\* a flow of three nodes ended: one took its path from upstream, one failed
C30_Witness ==
    /\ FlowRan
    /\ Len(execution_order) = 3
    /\ \E i \in DOMAIN events : events[i].type = "log" /\ events[i].node_id /= None
    /\ \E n \in DOMAIN node_results : ~node_results[n].success
    /\ \E n \in DOMAIN node_results : node_results[n].success

\* ------------------------------------------------------------------------
\* Broadcasts under concurrent connects and disconnects (SpecTasks)
\* ------------------------------------------------------------------------

\* C27: a subscriber connecting or disconnecting while a broadcast is in
\* progress never makes the broadcast fail and never changes the outcome of
\* the execution: no broadcast loop raises, in _run_task or in cancel_task,
\* and no task is failed by the loop's RuntimeError.
C27_BroadcastSurvivesSubscriberChange ==
    /\ \A c \in DOMAIN iters : ~iters[c].raised
    /\ \A t \in DOMAIN tasks : tasks[t].error /= "RuntimeError"

InitChannel ==
    /\ nodes = <<>>
    /\ edges = <<>>
    /\ setOrder = <<>>
    /\ sortOut = NotCalled
    /\ FlowIdle
    /\ TasksIdle
    /\ HubIdle
    /\ RegistryIdle
    /\ HistoryIdle
    /\ FlowsIdle

NextChannel ==
    \/ OrchPublish
    \/ \E e \in EventIds : PubStep(e)
    \/ \E s \in HubSockets, task_id \in ExecutionIds : HubConnect(s, task_id)
    \/ \E s \in HubSockets : HubConnectSystem(s)
    \/ \E s \in HubSockets, message \in ClientMessages : HubClientMessage(s, message)
    \/ \E s \in HubSockets : HubClientClose(s)
    \/ \E s \in HubSockets : HubDisconnect(s)

SpecChannel == InitChannel /\ [][NextChannel]_vars

\* ------------------------------------------------------------------------
\* Claims on the channels (SpecChannel)
\* ------------------------------------------------------------------------

\* C24: on the channel of an execution a ping is answered with one pong to
\* the client that sent it and to nobody else; any other client message
\* leaves the subscriber sets, the channels and what was published as they were.
C24_OnlyPingAnswered ==
    [][ (hubLast'.n = hubLast.n + 1 /\ hubTask[hubLast'.socket] /= None)
          => /\ active_connections' = active_connections
             /\ global_connections' = global_connections
             /\ hubState' = hubState
             /\ published' = published
             /\ pubs' = pubs
             /\ received' = IF hubLast'.message = "ping"
                            THEN [received EXCEPT ![hubLast'.socket] = Append(@, Pong)]
                            ELSE received ]_vars

\* C29: an event of the running execution is sent only to the subscribers of
\* that execution and of the system channel; a subscriber of another
\* execution never receives it.
C29_OtherExecutionNeverReceives ==
    /\ \A e \in DOMAIN pubs : \A s \in pubs[e].audience :
          hubTask[s] \in {RunningExecution, None}
    /\ \A s \in HubSockets :
          hubTask[s] \notin {RunningExecution, None}
              => \A i \in DOMAIN received[s] : received[s][i] \notin EventIds

\* an event was sent to a subscriber of the running execution while a
\* subscriber of another execution was connected, which did not receive it
C29_Witness ==
    \E s, u \in HubSockets :
        /\ hubTask[s] = RunningExecution
        /\ hubTask[u] \in ExecutionIds \ {RunningExecution}
        /\ hubState[u] = "open"
        /\ joined[u] = {}
        /\ 1 \in DOMAIN pubs
        /\ pubs[1].pc = "done"
        /\ \E i \in DOMAIN received[s] : received[s][i] = 1
        /\ received[u] = <<ConnectedNotice>>

====
